---- MODULE Spec2Model ----
(***************************************************************************)
(* A model of the TestReportAnalyzer front end: the data-shaping helpers   *)
(* (fileUtils, analysisUtils, api.js response normalisation) as operators, *)
(* and the React components' event handlers as actions.                    *)
(*                                                                         *)
(* Five specifications share the module:                                   *)
(*   SpecFile    - normaliseFilenameForComparison over bounded filenames   *)
(*   SpecEntry   - normalizeAnalyzeFilesResponse, createAnalysisEntry and  *)
(*                 App.handleAnalysisComplete over bounded server payloads *)
(*   SpecArchiveUpload  - App with the upload card of its archive page     *)
(*                 (ArchiveManagement): file selection, bulk upload,       *)
(*                 report refresh, and the page being unmounted and        *)
(*                 mounted again by the router                             *)
(*   SpecArchiveReports - App with the report table of its archive page:   *)
(*                 selection, compare, analyze, and the router             *)
(*   SpecHome    - App with its home page (UploadForm): file selection,    *)
(*                 upload and analysis, report refresh, and the router     *)
(***************************************************************************)
EXTENDS Integers, Sequences, FiniteSets, TLC

VARIABLES
    \* ---- SpecFile: one filename pushed through the normaliser twice
    fname,          \* the input filename, a sequence of characters
    fnorm,          \* normaliseFilenameForComparison(fname)
    fnorm2,         \* normaliseFilenameForComparison(fnorm)
    fphase,         \* "input" | "once" | "twice"
    \* ---- SpecEntry: one server payload pushed through the analysis helpers
    rawResult,      \* the payload as the server sent it
    analysisResult, \* the analysis result handed on: rawResult, or api.js's normalisation of it
    entry,          \* createAnalysisEntry(analysisResult, ..) of utils/analysisUtils.js
    entrySummaries, \* createAnalysisEntry(analysisResult, ..) of the summaries-building source
    returned,       \* what App.handleAnalysisComplete returned
    ephase,         \* "input" | "normalized" | "created" | "createdSummaries" | "handled"
    \* ---- App state
    analysisEngine, \* App: analysisEngine
    analysisHistory,\* App: analysisHistory, newest first
    clock,          \* Date.now()
    reports,        \* App: reports, the client's copy of the report list
    loading,        \* App: loading
    error,          \* App: error (TRUE: the "reports could not be loaded" text)
    isAnalysisProcessing,   \* App: the home page's processing flag
    \* ---- the pages: the router, the two pages, the network and the server
    route,          \* "home" | "archive" | "other"
    navigations,    \* route changes so far; the mounted page instance is navigations + 1
    home,           \* UploadForm state of the mounted home page
    archive,        \* ArchiveManagement state of the mounted archive page
    procs,          \* the activations of the async handlers, with their locals and position
    requests,       \* the requests of the running activations, in order, with their status
    serverReports,  \* the reports the server holds
    \* ---- TestReportsBoard
    board,          \* TestReportsBoard state of the mounted board page
    sessionStorage, \* window.sessionStorage: the keys whose value is "processing"
    \* ---- SpecBanner: one rejected request and the banner of the action it failed
    thrown,         \* the error the awaited request rejected with
    failedAction,   \* the action whose catch clause handled it, "none" before
    bannerMessage,  \* the error text that action puts into its banner
    \* ---- SpecView: one comparison response rendered by ComparisonDetailView
    comparisonData, \* the comparisonData prop
    viewOutcome,    \* result "pending", or what rendering it gave
    \* ---- SpecRequest: one call of api.js and the multipart body it posts
    apiCall,        \* the function called, its arguments, and whether it has posted
    formData,       \* the entries of the FormData posted, in order
    \* ---- SpecDatabase: the two tables of schema.sql
    reportsTable,   \* the rows of table reports
    test_results,   \* the rows of table test_results
    sqlite_sequence,\* AUTOINCREMENT: the largest id each table has handed out
    \* ---- SpecHomeForm: the events of the home upload form
    homeEvent,      \* the last file-input, drop or clear event of the form
    \* ---- SpecFetch: the calls of App.fetchReports, each with its request
    fetches,        \* the calls in the order they started, with the response of each
    \* ---- HomeSection and NaturalLanguageQuery
    homeSection,    \* HomeSection state of the mounted home page: the reset card
    queryPage       \* NaturalLanguageQuery state of the mounted query page

fileVars == <<fname, fnorm, fnorm2, fphase>>
entryVars == <<rawResult, analysisResult, entry, entrySummaries, returned, ephase>>
appVars == <<analysisEngine, analysisHistory, clock>>
listVars == <<reports, loading, error, isAnalysisProcessing>>
pageVars == <<route, navigations, home, archive, procs, requests, serverReports>>
boardVars == <<board, sessionStorage>>
bannerVars == <<thrown, failedAction, bannerMessage>>
viewVars == <<comparisonData, viewOutcome>>
requestVars == <<apiCall, formData>>
dbVars == <<reportsTable, test_results, sqlite_sequence>>
lateVars == <<homeEvent>>
netVars == <<fetches, homeSection, queryPage>>
moreVars == <<requestVars, dbVars, lateVars, netVars>>
extraVars == <<boardVars, bannerVars, viewVars, moreVars>>

(***************************************************************************)
(* Bounds of the model.                                                    *)
(***************************************************************************)
MaxNameLen == 3
MaxTests == 2
MaxSummaries == 2
MaxDrop == 1            \* files in one drop or one file-dialog selection
MaxNavigations == 2     \* route changes
MaxActivations == 2     \* submissions (upload and analyze, analyze, compare) the user starts
MaxBatches == 1         \* bulk uploads the user starts
MaxRequestFiles == 2    \* files in one analyzeReportsWithAI call
MaxUploads == 3         \* report rows the database ever inserts
MaxResults == 2         \* test_results rows one upload inserts
MaxSelection == 2       \* files in one selection of the home upload form
MaxAdded == 2           \* files in one add event of a nearly full archive selection
MaxFetches == 3         \* calls of fetchReports
MaxStored == 3          \* reports the server holds at a time
MaxEarlier == 2         \* analyses completed before the first state

(***************************************************************************)
(* Generic sequence helpers.                                               *)
(***************************************************************************)
RECURSIVE SeqsUpTo(_, _)
SeqsUpTo(S, n) ==
    IF n = 0 THEN {<<>>}
    ELSE LET shorter == SeqsUpTo(S, n - 1)
         IN  shorter \cup {Append(s, x) : s \in {t \in shorter : Len(t) = n - 1}, x \in S}

RECURSIVE FlatMap(_, _)
\* s.flatMap(F): the concatenation of F(s[1]), F(s[2]), ...
FlatMap(F(_), s) ==
    IF s = <<>> THEN <<>> ELSE F(Head(s)) \o FlatMap(F, Tail(s))

RECURSIVE DropWhile(_, _)
\* s without its longest prefix of elements satisfying P
DropWhile(P(_), s) ==
    IF s # <<>> /\ P(Head(s)) THEN DropWhile(P, Tail(s)) ELSE s

(***************************************************************************)
(* fileUtils: normaliseFilenameForComparison.                              *)
(* A filename is a sequence of characters.  The alphabet has one member of *)
(* each class the regular expressions of the function tell apart:          *)
(*   "a" "b"      lower-case ASCII letters                                 *)
(*   "A"          an upper-case ASCII letter                               *)
(*   "1"          a digit                                                  *)
(*   "." "_" "-"  the three punctuation characters the function keeps      *)
(*   " "          an ASCII character outside [0-9a-zA-Z._-]                *)
(*   "e'"         U+00E9, whose NFKD form is "e" followed by U+0301        *)
(*   "'"          U+0301, a combining mark in [\u0300-\u036f]              *)
(***************************************************************************)
Lower == {"a", "b", "c", "e", "p", "d", "f", "t", "x"}
Upper == {"A"}
Digit == {"1"}
Kept  == {".", "_", "-"}
CombiningMark == "'"
EAcute == "e'"

\* String.prototype.normalize("NFKD"), one character at a time
NFKD(c) == IF c = EAcute THEN <<"e", CombiningMark>> ELSE <<c>>

\* .replace(/[\u0300-\u036f]/g, "")
StripMark(c) == IF c = CombiningMark THEN <<>> ELSE <<c>>

\* .replace(/[^0-9a-zA-Z._-]/g, "_")
ReplaceOther(c) == IF c \in Lower \cup Upper \cup Digit \cup Kept THEN <<c>> ELSE <<"_">>

RECURSIVE CollapseUnderscores(_)
\* .replace(/_+/g, "_")
CollapseUnderscores(s) ==
    IF Len(s) < 2 THEN s
    ELSE IF s[1] = "_" /\ s[2] = "_" THEN CollapseUnderscores(Tail(s))
    ELSE <<s[1]>> \o CollapseUnderscores(Tail(s))

IsUnderscore(c) == c = "_"
IsDot(c) == c = "."

\* a toLowerCase that leaves every character as it is
ToLowerChar_asIs(c) == c

\* String.prototype.toLowerCase, one character at a time
ToLowerChar(c) == IF c = "A" THEN "a" ELSE c
toLowerCase(s) == [i \in 1..Len(s) |-> ToLowerChar(s[i])]

normaliseFilenameForComparison(filename) ==
    \* !filename: the empty string (like undefined and null) gives ""
    IF filename = <<>> THEN <<>>
    ELSE toLowerCase(                              \* .toLowerCase()
           DropWhile(IsDot,                        \* .replace(/^\.+/, "")
             DropWhile(IsUnderscore,               \* .replace(/^_+/, "")
               CollapseUnderscores(                \* .replace(/_+/g, "_")
                 FlatMap(ReplaceOther,
                   FlatMap(StripMark,
                     FlatMap(NFKD, filename)))))))

(***************************************************************************)
(* JavaScript values.  Every value carries its type tag, so that values of *)
(* different types can be compared.  An object is a function from its own  *)
(* property names to values; a missing property reads as undefined.        *)
(* Counts are integers.  A success rate is held in hundredths of a percent *)
(* (80 is Pct(80) = 8000, 66.67 is 6667), so that two-decimal rounding is  *)
(* integer arithmetic.                                                     *)
(***************************************************************************)
JUndef   == [t |-> "undefined"]
JNull    == [t |-> "null"]
JBool(b) == [t |-> "boolean", b |-> b]
JNum(n)  == [t |-> "number", n |-> n]
JStr(s)  == [t |-> "string", s |-> s]
JArr(a)  == [t |-> "array", a |-> a]
JObj(o)  == [t |-> "object", o |-> o]
\* new Date(ms).toISOString()
JIso(ms) == [t |-> "string", iso |-> ms]
\* JSON.stringify(v, null, 2): a string, not the object it was made from
JJson(v) == [t |-> "string", json |-> v]
\* a template literal with the interpolated values
JTemplate(parts) == [t |-> "string", parts |-> parts]

NoProps  == [k \in {} |-> JUndef]
EmptyObj == JObj(NoProps)
Pct(n)   == n * 100

IsArray(v)  == v.t = "array"                     \* Array.isArray(v)
IsNumber(v) == v.t = "number"                    \* typeof v === "number"
TypeofObject(v) == v.t \in {"object", "array", "null"}   \* typeof v === "object"
Nullish(v)  == v.t \in {"undefined", "null"}

\* the truthiness every `!x`, `x || y`, `x ? a : b` and filter(Boolean) uses
Truthy(v) ==
    CASE v.t \in {"undefined", "null"} -> FALSE
      [] v.t = "boolean" -> v.b
      [] v.t = "number"  -> v.n # 0
      [] v.t = "string"  -> v # JStr("")
      [] OTHER           -> TRUE

Or(a, b)       == IF Truthy(a) THEN a ELSE b     \* a || b
Coalesce(a, b) == IF Nullish(a) THEN b ELSE a    \* a ?? b

\* v.k and v?.k (every read of the source is of a truthy value or optional)
Get(v, k) == IF v.t = "object" /\ k \in DOMAIN v.o THEN v.o[k] ELSE JUndef

\* {...a, ...b} on property maps
Merge(a, b) == [k \in DOMAIN a \cup DOMAIN b |-> IF k \in DOMAIN b THEN b[k] ELSE a[k]]
\* the own properties `...v` copies (the model spreads objects, null and undefined)
Spread(v) == IF v.t = "object" THEN v.o ELSE NoProps

\* v.length, truthy or not, for `x?.length ? .. : ..`
HasLength(v) ==
    CASE v.t = "array"  -> v.a # <<>>
      [] v.t = "string" -> v # JStr("")
      [] OTHER          -> Truthy(Get(v, "length"))

MapSeq(F(_), s) == [i \in 1..Len(s) |-> F(s[i])]

\* Number(v) for the values the model feeds it; NaN is "not finite"
NumericStrings == {"0", "1", "2", "8", "10"}
StringNumber(s) ==
    CASE s = "0" -> 0 [] s = "1" -> 1 [] s = "2" -> 2 [] s = "8" -> 8 [] s = "10" -> 10
NumberIsFinite(v) ==
    CASE v.t = "number"  -> TRUE
      [] v.t = "null"    -> TRUE
      [] v.t = "boolean" -> TRUE
      [] v.t = "string"  -> v = JStr("") \/ (\E s \in NumericStrings : v = JStr(s))
      [] v.t = "array"   -> v.a = <<>>
      [] OTHER           -> FALSE
NumberOf(v) ==
    CASE v.t = "number"  -> v.n
      [] v.t = "boolean" -> IF v.b THEN 1 ELSE 0
      [] v.t = "string" /\ v # JStr("") -> StringNumber(v.s)
      [] OTHER           -> 0

(***************************************************************************)
(* api.js: the shape normalisation of the two analysis endpoints.          *)
(***************************************************************************)
normalizeAnalyzeFilesResponse_pluralOnly(payload) ==
    IF ~Truthy(payload) \/ ~TypeofObject(payload)
    THEN JObj("engine" :> JStr("") @@ "engine_key" :> JStr("") @@
              "message" :> JStr("") @@ "summaries" :> JArr(<<>>))
    ELSE LET summaries ==
                 IF IsArray(Get(payload, "summaries")) THEN Get(payload, "summaries")
                 ELSE JArr(<<>>)
         IN  JObj(Merge(Spread(payload), "summaries" :> summaries))

normalizeAnalyzeFilesResponse(payload) ==
    IF ~Truthy(payload) \/ ~TypeofObject(payload)
    THEN JObj("engine" :> JStr("") @@ "engine_key" :> JStr("") @@
              "message" :> JStr("") @@ "summaries" :> JArr(<<>>))
    ELSE LET summaries ==
                 IF IsArray(Get(payload, "summaries")) THEN Get(payload, "summaries")
                 ELSE IF Truthy(Get(payload, "summary")) THEN JArr(<<Get(payload, "summary")>>)
                 ELSE JArr(<<>>)
         IN  JObj(Merge(Spread(payload), "summaries" :> summaries))

(***************************************************************************)
(* utils/analysisUtils.js.  User-visible texts are written in ASCII.       *)
(***************************************************************************)
\* engineKey.toString().toLowerCase() for the engine names of the model
LowerEngine(s) ==
    CASE s = "ChatGPT" -> "chatgpt" [] s = "Claude" -> "claude" [] OTHER -> s

resolveEngineLabel(engineKey) ==
    IF ~Truthy(engineKey) THEN JStr("ChatGPT")
    ELSE IF engineKey.t = "string" /\ LowerEngine(engineKey.s) \in {"claude", "claude-3"}
         THEN JStr("Claude")
    ELSE IF engineKey.t = "string" /\ LowerEngine(engineKey.s) \in {"chatgpt", "gpt-4"}
         THEN JStr("ChatGPT")
    ELSE engineKey

\* createAnalysisEntry as utils/analysisUtils.js defines it: the module that
\* App.js and AnalysisSummaryCard.test.js import.  `now` is Date.now().
createAnalysisEntry(result, context, now) ==
    IF ~Truthy(result) THEN JNull
    ELSE IF Truthy(Get(result, "error")) THEN
        JObj("id" :> JNum(now) @@ "timestamp" :> JIso(now) @@
             "engine" :> Or(Get(context, "engineKey"), JStr("unknown")) @@
             "error" :> Get(result, "error") @@
             "summary" :> JStr("Analiz basarisiz oldu. Lutfen tekrar deneyin.") @@
             "details" :> Or(Get(result, "raw_response"), JStr("Detay bulunamadi")))
    ELSE IF ~Truthy(Get(result, "overall_summary")) \/ ~Truthy(Get(result, "measured_values")) THEN
        JObj("id" :> JNum(now) @@ "timestamp" :> JIso(now) @@
             "engine" :> Or(Get(context, "engineKey"), JStr("unknown")) @@
             "summary" :> Or(Get(result, "summary"),
                             JStr("Analiz tamamlandi ancak bazi veriler eksik")) @@
             "details" :> JJson(result))
    ELSE
        LET overall == Get(result, "overall_summary")
        IN  JObj("id" :> JNum(now) @@ "timestamp" :> JIso(now) @@
                 "engine" :> Or(Get(context, "engineKey"), JStr("unknown")) @@
                 "summary" :> (IF Truthy(Get(overall, "success_rate"))
                               THEN JTemplate(<<Get(overall, "passed"), Get(overall, "total_tests"),
                                                Get(overall, "success_rate")>>)
                               ELSE Or(Get(result, "summary"), JStr("Analiz tamamlandi"))) @@
                 "details" :> result)

(***************************************************************************)
(* The repository's second analysisUtils source, the one that builds the   *)
(* `summaries` list of an entry and aggregates it.                         *)
(***************************************************************************)
Max(a, b) == IF a >= b THEN a ELSE b

\* Number(value) when finite, else the fallback
coerceNumber(value, fallback) ==
    IF NumberIsFinite(value) THEN NumberOf(value) ELSE fallback

\* String(item).trim(): " " stands for every blank string
Trim(v) == IF v = JStr(" ") THEN JStr("") ELSE v
StringOf(v) == IF v.t = "string" THEN v ELSE JStr("[value]")
TrimmedItem(item) == Trim(StringOf(Coalesce(item, JStr(""))))

normaliseStringList(value) ==
    IF IsArray(value) THEN JArr(SelectSeq(MapSeq(TrimmedItem, value.a), Truthy))
    ELSE IF value.t = "string"
         THEN (IF Truthy(Trim(value)) THEN JArr(<<Trim(value)>>) ELSE JArr(<<>>))
    ELSE JArr(<<>>)

NormalisedFailure(failure) ==
    JObj("test_name" :> Or(Get(failure, "test_name"), JStr("Bilinmeyen Test")) @@
         "failure_reason" :> Or(Get(failure, "failure_reason"), JStr("")) @@
         "suggested_fix" :> Or(Get(failure, "suggested_fix"), JStr("")))

normaliseFailureList(value) ==
    IF ~IsArray(value) THEN JArr(<<>>) ELSE JArr(MapSeq(NormalisedFailure, value.a))

extractSummariesFromResult(result) ==
    IF ~Truthy(result) THEN <<>>
    ELSE IF IsArray(Get(result, "summaries")) THEN Get(result, "summaries").a
    ELSE IF IsArray(Get(result, "summary")) THEN Get(result, "summary").a
    ELSE IF Truthy(Get(result, "summary")) /\ TypeofObject(Get(result, "summary"))
         THEN <<Get(result, "summary")>>
    ELSE <<>>

RoundedRate_truncated(passed, total) == (10000 * passed) \div total

\* Number(((passed / total) * 100).toFixed(2)), in hundredths of a percent
RoundedRate(passed, total) == (20000 * passed + total) \div (2 * total)

normaliseSummaryPayload(summary) ==
    IF ~Truthy(summary) \/ ~TypeofObject(summary) THEN JNull
    ELSE
    LET measurementAnalysis == Or(Get(summary, "measurement_analysis"), EmptyObj)
        measurementOverall ==
            Or(Get(measurementAnalysis, "overall_summary"),
               Or(Get(summary, "overall_summary"), EmptyObj))
        measuredValues ==
            Or(Get(measurementAnalysis, "measured_values"),
               Or(Get(summary, "measured_values"), EmptyObj))
        totalTests ==
            coerceNumber(Coalesce(Get(summary, "total_tests"),
                           Coalesce(Get(measurementOverall, "total_tests"), JNum(0))), 0)
        passedTests ==
            coerceNumber(Coalesce(Get(summary, "passed_tests"),
                           Coalesce(Get(measurementOverall, "passed"),
                                    Get(measurementOverall, "passed_tests"))), 0)
        derivedFailed == Max(totalTests - passedTests, 0)
        failedTests ==
            coerceNumber(Coalesce(Get(summary, "failed_tests"),
                           Coalesce(Get(measurementOverall, "failed"),
                                    Get(measurementOverall, "failed_tests"))), derivedFailed)
        successRate ==
            IF IsNumber(Get(summary, "success_rate")) THEN Get(summary, "success_rate")
            ELSE IF IsNumber(Get(measurementOverall, "success_rate"))
                 THEN Get(measurementOverall, "success_rate")
            ELSE IF totalTests # 0 THEN JNum(RoundedRate(passedTests, totalTests))
            ELSE JNum(0)
        highlights ==
            IF HasLength(Get(summary, "highlights")) THEN Get(summary, "highlights")
            ELSE normaliseStringList(Get(measurementOverall, "highlights"))
    IN  JObj(Merge(Spread(summary),
             "highlights" :> highlights @@
             "failures" :> normaliseFailureList(Get(summary, "failures")) @@
             "localized_summaries" :> Or(Get(summary, "localized_summaries"), EmptyObj) @@
             "structured_sections" :> Or(Get(summary, "structured_sections"), EmptyObj) @@
             "measured_values" :> measuredValues @@
             "overall_summary" :>
                 JObj(Merge(Spread(measurementOverall),
                      "total_tests" :> JNum(totalTests) @@
                      "passed" :> JNum(passedTests) @@
                      "failed" :> JNum(failedTests) @@
                      "success_rate" :> successRate))))

RECURSIVE SumOver(_, _)
\* summaries.reduce((acc, item) => acc + F(item), 0)
SumOver(F(_), items) ==
    IF items = <<>> THEN 0 ELSE F(Head(items)) + SumOver(F, Tail(items))

ItemTotal(item) ==
    coerceNumber(Coalesce(Get(Or(Get(item, "overall_summary"), EmptyObj), "total_tests"),
                          Get(item, "total_tests")), 0)
ItemPassed(item) ==
    coerceNumber(Coalesce(Get(Or(Get(item, "overall_summary"), EmptyObj), "passed"),
                          Get(item, "passed_tests")), 0)
ItemFailed(item) ==
    coerceNumber(Coalesce(Get(Or(Get(item, "overall_summary"), EmptyObj), "failed"),
                          Get(item, "failed_tests")), 0)

aggregateOverallSummary(summaries) ==
    IF summaries = <<>> THEN EmptyObj
    ELSE LET total  == SumOver(ItemTotal, summaries)
             passed == SumOver(ItemPassed, summaries)
             failed == SumOver(ItemFailed, summaries)
             successRate == IF total # 0 THEN RoundedRate(passed, total) ELSE 0
         IN  JObj("total_tests" :> JNum(total) @@ "passed" :> JNum(passed) @@
                  "failed" :> JNum(failed) @@ "success_rate" :> JNum(successRate))

\* Object.keys(v).length > 0
HasKeys(v) ==
    CASE v.t = "object" -> DOMAIN v.o # {}
      [] v.t = "array"  -> v.a # <<>>
      [] v.t = "string" -> v # JStr("")
      [] OTHER          -> FALSE

RECURSIVE pickMeasuredValuesSnapshot(_)
pickMeasuredValuesSnapshot(summaries) ==
    IF summaries = <<>> THEN EmptyObj
    ELSE IF Truthy(Get(Head(summaries), "measured_values"))
            /\ HasKeys(Get(Head(summaries), "measured_values"))
         THEN Get(Head(summaries), "measured_values")
    ELSE pickMeasuredValuesSnapshot(Tail(summaries))

createAnalysisEntryWithSummaries(result, context, now) ==
    IF ~Truthy(result) THEN JNull
    ELSE IF Truthy(Get(result, "error")) THEN
        LET engineKey == Or(Get(context, "engineKey"),
                           Or(Get(result, "engine_key"), Or(Get(result, "engine"), JStr("unknown"))))
        IN  JObj("id" :> JNum(now) @@ "timestamp" :> JIso(now) @@
                 "engine" :> resolveEngineLabel(engineKey) @@
                 "engine_key" :> engineKey @@
                 "error" :> Get(result, "error") @@
                 "summary" :> JStr("Analiz basarisiz oldu. Lutfen tekrar deneyin.") @@
                 "details" :> Or(Get(result, "raw_response"), JStr("Detay bulunamadi")) @@
                 "summaries" :> JArr(<<>>))
    ELSE
    LET extractedSummaries ==
            SelectSeq(MapSeq(normaliseSummaryPayload, extractSummariesFromResult(result)), Truthy)
    IN  IF extractedSummaries = <<>> THEN
            JObj("id" :> JNum(now) @@ "timestamp" :> JIso(now) @@
                 "engine" :> resolveEngineLabel(
                                 Or(Get(context, "engineKey"),
                                    Or(Get(result, "engine_key"), Get(result, "engine")))) @@
                 "summary" :> JStr("Analiz tamamlandi ancak ozet olusturulamadi") @@
                 "message" :> Or(Get(result, "message"), Or(Get(context, "message"), JStr(""))) @@
                 "summaries" :> JArr(<<>>) @@
                 "details" :> result)
        ELSE
        LET engineKey == Or(Get(context, "engineKey"),
                           Or(Get(result, "engine_key"), Or(Get(result, "engine"), JStr("chatgpt"))))
        IN  JObj("id" :> JNum(now) @@ "timestamp" :> JIso(now) @@
                 "engine" :> resolveEngineLabel(engineKey) @@
                 "engine_key" :> engineKey @@
                 "source" :> Or(Get(context, "source"), JStr("")) @@
                 "message" :> Or(Get(result, "message"), Or(Get(context, "message"), JStr(""))) @@
                 "files_analyzed" :> JNum(Len(extractedSummaries)) @@
                 "summaries" :> JArr(extractedSummaries) @@
                 "overall_summary" :> aggregateOverallSummary(extractedSummaries) @@
                 "measured_values" :> pickMeasuredValuesSnapshot(extractedSummaries) @@
                 "details" :> result)

(***************************************************************************)
(* App.js: handleAnalysisComplete.  It returns the entry (or null) and     *)
(* prepends the entry to analysisHistory.                                  *)
(***************************************************************************)
handleAnalysisComplete(res, context, engine, now) ==
    IF ~Truthy(res) THEN JNull
    ELSE createAnalysisEntry(res,
             JObj("engineKey" :> Coalesce(Get(context, "engineKey"), engine) @@
                  "source" :> Coalesce(Get(context, "source"), JStr("home"))),
             now)

HistoryAfter_unconditional(prev, e) == <<e>> \o prev

\* setAnalysisHistory((prev) => [entry, ...prev]) when an entry was built
HistoryAfter(prev, e) == IF Truthy(e) THEN <<e>> \o prev ELSE prev

(***************************************************************************)
(* Idle values of the variables a specification does not use.              *)
(***************************************************************************)
FileIdle ==
    /\ fname = <<>> /\ fnorm = <<>> /\ fnorm2 = <<>> /\ fphase = "idle"
EntryIdle ==
    /\ rawResult = JUndef /\ analysisResult = JUndef /\ entry = JUndef
    /\ entrySummaries = JUndef /\ returned = JUndef /\ ephase = "idle"
AppIdle ==
    /\ analysisEngine = JStr("chatgpt") /\ analysisHistory = <<>> /\ clock = 1
PagesIdle ==
    /\ reports = {} /\ loading = FALSE /\ error = FALSE /\ isAnalysisProcessing = FALSE
    /\ route = "idle" /\ navigations = 0 /\ home = <<>> /\ archive = <<>>
    /\ procs = <<>> /\ requests = <<>> /\ serverReports = {}

BoardIdle == board = <<>> /\ sessionStorage = {}
BannerIdle == thrown = JUndef /\ failedAction = "none" /\ bannerMessage = JUndef
ViewIdle ==
    /\ comparisonData = JUndef
    /\ viewOutcome = [result |-> "pending"]
RequestIdle ==
    /\ apiCall = [fn |-> "none", files |-> <<>>, engine |-> JUndef, posted |-> FALSE]
    /\ formData = <<>>
DbIdle ==
    /\ reportsTable = {} /\ test_results = {}
    /\ sqlite_sequence = [reports |-> 0, test_results |-> 0]
NoEvent == [kind |-> "none", files |-> <<>>, processing |-> FALSE, n |-> 0]
LateIdle == homeEvent = NoEvent
NetIdle == fetches = <<>> /\ homeSection = <<>> /\ queryPage = <<>>
MoreIdle == RequestIdle /\ DbIdle /\ LateIdle /\ NetIdle
ExtraIdle == BoardIdle /\ BannerIdle /\ ViewIdle /\ MoreIdle

vars == <<fileVars, entryVars, appVars, listVars, pageVars, extraVars>>

(***************************************************************************)
(* SpecFile.                                                               *)
(***************************************************************************)
FileAlphabet == {"a", "A", ".", "_", " ", EAcute}
FileNameInputs == SeqsUpTo(FileAlphabet, MaxNameLen)

FileInit ==
    /\ fname \in FileNameInputs
    /\ fnorm = <<>>
    /\ fnorm2 = <<>>
    /\ fphase = "input"
    /\ EntryIdle /\ AppIdle /\ PagesIdle /\ ExtraIdle

NormaliseOnce ==
    /\ fphase = "input"
    /\ fnorm' = normaliseFilenameForComparison(fname)
    /\ fphase' = "once"
    /\ UNCHANGED <<fname, fnorm2, entryVars, extraVars, appVars, listVars, pageVars>>

NormaliseTwice ==
    /\ fphase = "once"
    /\ fnorm2' = normaliseFilenameForComparison(fnorm)
    /\ fphase' = "twice"
    /\ UNCHANGED <<fname, fnorm, entryVars, extraVars, appVars, listVars, pageVars>>

FileNext == NormaliseOnce \/ NormaliseTwice

SpecFile == FileInit /\ [][FileNext]_vars

\* C5: normaliseFilenameForComparison is idempotent: normalising an already
\* normalised filename gives the same filename.
C5_Idempotent == fphase = "twice" => fnorm2 = fnorm

(***************************************************************************)
(* SpecEntry: the payloads.                                                *)
(***************************************************************************)
\* o with property k set to v, or o itself when v is undefined (k absent)
With(o, k, v) == IF v = JUndef THEN o ELSE Merge(o, k :> v)

\* the summary of AnalysisSummaryCard.test.js (buildSampleResponse)
SampleSummary ==
    JObj("filename" :> JStr("test-report.pdf") @@
         "total_tests" :> JNum(10) @@ "passed_tests" :> JNum(8) @@ "failed_tests" :> JNum(2) @@
         "report_type_label" :> JStr("R80 Darbe Testi") @@
         "success_rate" :> JNum(Pct(80)) @@
         "localized_summaries" :> JObj("tr" :> JObj("summary" :> JStr("Rapora gore koltuk darbe testini gecti."))) @@
         "highlights" :> JArr(<<JStr("Yan hava yastigi hedeflenen surede acildi.")>>) @@
         "failures" :> JArr(<<JObj("test_name" :> JStr("Yan Darbe") @@
                                   "failure_reason" :> JStr("Sensor kalibrasyonu sapma gosterdi."))>>) @@
         "measurement_analysis" :>
             JObj("overall_summary" :> JObj("total_tests" :> JNum(10) @@ "passed" :> JNum(8) @@
                                            "failed" :> JNum(2) @@ "success_rate" :> JNum(Pct(80))) @@
                  "measured_values" :> JObj("peak_force" :> JStr("15 kN"))))

\* the summary of the specification's example: {total_tests: 10, passed: 8}
ExampleSummary == JObj("total_tests" :> JNum(10) @@ "passed" :> JNum(8))

\* a summary with the three counters at the top level (undefined = absent)
CountSummary(fn, t, p, f) ==
    JObj(With(With(With("filename" :> JStr(fn) @@ "report_type_label" :> JStr("R10 EMC Testi"),
                        "total_tests", t), "passed_tests", p), "failed_tests", f))

\* a summary with the counters under measurement_analysis.overall_summary
MeasuredSummary(fn, t, p) ==
    JObj("filename" :> JStr(fn) @@
         "measurement_analysis" :>
             JObj("overall_summary" :>
                      JObj("total_tests" :> t @@ "passed" :> p @@
                           "highlights" :> JArr(<<JStr(" "), JStr("ok")>>))))

Counts == {JNum(n) : n \in 0..MaxTests}

\* the summaries a singular `summary` is drawn from
SummaryInputs ==
    {CountSummary("a.pdf", t, p, f) :
        t \in Counts \cup {JUndef, JStr("8")}, p \in Counts \cup {JUndef}, f \in {JUndef, JNull, JNum(1)}}
    \cup {MeasuredSummary("m.pdf", t, p) : t \in Counts, p \in Counts}
    \cup {SampleSummary, ExampleSummary}

\* the summaries a `summaries` array is made of
ListSummaryInputs ==
    {CountSummary("a.pdf", t, p, JUndef) : t \in {JNum(0), JNum(MaxTests), JNum(MaxTests + 1)}, p \in {JNum(1)}}
    \cup {MeasuredSummary("m.pdf", JNum(MaxTests), JNum(1)), SampleSummary, ExampleSummary}

SummaryLists == SeqsUpTo(ListSummaryInputs, MaxSummaries)

\* the fields of a response other than summaries and summary
BaseFields ==
    "engine" :> JStr("ChatGPT") @@ "engine_key" :> JStr("chatgpt") @@
    "message" :> JStr("1 dosya ChatGPT ile analiz edildi.")

ResponseExtras ==
    {NoProps,
     "error" :> JStr("AI servisi yanit vermedi"),
     "overall_summary" :> JObj("total_tests" :> JNum(10) @@ "passed" :> JNum(8) @@
                               "success_rate" :> JNum(Pct(80))) @@
         "measured_values" :> JObj("peak_force" :> JStr("15 kN"))}

ObjectPayloads ==
    {JObj(With(With(Merge(BaseFields, x), "summaries", ss), "summary", sm)) :
        x \in ResponseExtras,
        ss \in {JUndef, JStr("n/a")},
        sm \in SummaryInputs \cup {JUndef, JNull, JStr(""), JStr("Analiz ozeti")}}
    \cup
    {JObj(With(With(Merge(BaseFields, x), "summaries", JArr(l)), "summary", sm)) :
        x \in ResponseExtras, l \in SummaryLists, sm \in {JUndef, SampleSummary}}

\* the test's response and the specification's example, whole
SampleResponse == JObj(Merge(BaseFields, "summaries" :> JArr(<<SampleSummary>>)))
ExampleResult == JObj("summary" :> ExampleSummary)

FalsyPayloads == {JNull, JUndef, JBool(FALSE), JNum(0), JStr("")}

PayloadInputs ==
    FalsyPayloads \cup {JStr("Internal Server Error"), SampleResponse, ExampleResult}
    \cup ObjectPayloads

ContextInputs == {EmptyObj, JObj("engineKey" :> JStr("claude") @@ "source" :> JStr("archive"))}

\* an entry of an earlier analysis, for a history that is not empty
EarlierEntry ==
    createAnalysisEntry(JObj(Merge(BaseFields, "summaries" :> JArr(<<SampleSummary>>))),
                        JObj("engineKey" :> JStr("chatgpt") @@ "source" :> JStr("home")), 0)

EntryInit ==
    /\ rawResult \in PayloadInputs
    /\ analysisResult = rawResult
    /\ entry = JUndef
    /\ entrySummaries = JUndef
    /\ returned = JUndef
    /\ ephase = "input"
    /\ analysisEngine \in {JStr("chatgpt"), JStr("claude")}
    /\ analysisHistory \in {<<>>, <<EarlierEntry>>}
    /\ clock = 1
    /\ FileIdle /\ PagesIdle /\ ExtraIdle

\* api.js analyzeReportsWithAI / analyzeArchivedReports: the response is normalised
NormalizeResponse ==
    /\ ephase = "input"
    /\ analysisResult' = normalizeAnalyzeFilesResponse(rawResult)
    /\ ephase' = "normalized"
    /\ UNCHANGED <<rawResult, entry, entrySummaries, returned, fileVars, extraVars, appVars, listVars, pageVars>>

\* a direct call, as AnalysisSummaryCard.test.js and TestReportsBoard make it
CreateEntry ==
    /\ ephase \in {"input", "normalized"}
    /\ entry' = createAnalysisEntry(analysisResult, JObj("engineKey" :> analysisEngine), clock)
    /\ ephase' = "created"
    /\ UNCHANGED <<rawResult, analysisResult, entrySummaries, returned, fileVars, extraVars, appVars, listVars, pageVars>>

CreateEntryWithSummaries ==
    /\ ephase = "created"
    /\ entrySummaries' =
           createAnalysisEntryWithSummaries(analysisResult, JObj("engineKey" :> analysisEngine), clock)
    /\ ephase' = "createdSummaries"
    /\ UNCHANGED <<rawResult, analysisResult, entry, returned, fileVars, extraVars, appVars, listVars, pageVars>>

\* App.handleAnalysisComplete(analysisResult, context)
HandleAnalysisComplete ==
    /\ ephase = "createdSummaries"
    /\ \E context \in ContextInputs :
          LET e == handleAnalysisComplete(analysisResult, context, analysisEngine, clock)
          IN  /\ returned' = e
              /\ analysisHistory' = HistoryAfter(analysisHistory, e)
    /\ ephase' = "handled"
    /\ UNCHANGED <<rawResult, analysisResult, entry, entrySummaries, fileVars, extraVars, analysisEngine, clock, listVars, pageVars>>

EntryNext ==
    NormalizeResponse \/ CreateEntry \/ CreateEntryWithSummaries \/ HandleAnalysisComplete

SpecEntry == EntryInit /\ [][EntryNext]_vars

(***************************************************************************)
(* Properties of the analysis helpers.                                     *)
(***************************************************************************)
EntryBuilt == ephase \in {"created", "createdSummaries", "handled"}
BothBuilt  == ephase \in {"createdSummaries", "handled"}

\* the summaries the server sent: the array, else the singular object
ServerSummaries(res) ==
    IF IsArray(Get(res, "summaries")) THEN Get(res, "summaries").a
    ELSE IF Get(res, "summary").t = "object" THEN <<Get(res, "summary")>>
    ELSE <<>>

\* a result without error whose summaries are objects
CarriesSummaries(res) ==
    /\ res.t = "object"
    /\ ~Truthy(Get(res, "error"))
    /\ IsArray(Get(res, "summaries")) \/ Get(res, "summary").t = "object"
    /\ \A i \in 1..Len(ServerSummaries(res)) : ServerSummaries(res)[i].t = "object"

KeptFields == {"filename", "total_tests", "passed_tests", "failed_tests", "report_type_label"}

KeepsSummaries(e, res) ==
    /\ e # JNull
    /\ IsArray(Get(e, "summaries"))
    /\ Len(Get(e, "summaries").a) = Len(ServerSummaries(res))
    /\ \A i \in 1..Len(ServerSummaries(res)) : \A k \in KeptFields :
          Get(Get(e, "summaries").a[i], k) = Get(ServerSummaries(res)[i], k)

\* C1: for every non-error result that carries a `summaries` array or a
\* singular `summary` object, the entry createAnalysisEntry returns is not
\* null and its `summaries` is an array with one element per server summary,
\* in the server's order, each keeping filename, total_tests, passed_tests,
\* failed_tests and report_type_label.
C1_EntryKeepsSummaries ==
    (EntryBuilt /\ CarriesSummaries(analysisResult)) => KeepsSummaries(entry, analysisResult)

ExpectedOverall ==
    JObj("total_tests" :> JNum(10) @@ "passed" :> JNum(8) @@
         "failed" :> JNum(2) @@ "success_rate" :> JNum(Pct(80)))

\* C6: for the result {summary: {total_tests: 10, passed: 8}} the overall
\* summary of the entry is {total_tests: 10, passed: 8, failed: 2,
\* success_rate: 80}.  The repository holds two definitions of
\* createAnalysisEntry; the statement asks it of at least one of them.
C6_ExampleOverall ==
    (BothBuilt /\ rawResult = ExampleResult) =>
        \/ Get(entry, "overall_summary") = ExpectedOverall
        \/ Get(entrySummaries, "overall_summary") = ExpectedOverall

\* the per-summary value of the i-th summary of an entry
PerSummary(e, i, k) == Get(Get(Get(e, "summaries").a[i], "overall_summary"), k).n

RECURSIVE SumTo(_, _, _)
SumTo(e, k, n) == IF n = 0 THEN 0 ELSE SumTo(e, k, n - 1) + PerSummary(e, n, k)

HasSummaries(e) == IsArray(Get(e, "summaries")) /\ Get(e, "summaries").a # <<>>

Abs(x) == IF x < 0 THEN -x ELSE x

\* rate (in hundredths of a percent) is passed / total * 100 rounded to two decimals
IsRoundedRate(rate, passed, total) == 2 * Abs(rate * total - 10000 * passed) <= total

\* C7: for every non-empty list of summaries the entry's overall_summary has
\* total_tests, passed and failed equal to the sums of the per-summary values,
\* and success_rate equal to passed / total_tests * 100 rounded to 2 decimals,
\* or 0 when total_tests is 0.
C7_AggregateSums ==
    (BothBuilt /\ HasSummaries(entrySummaries)) =>
        LET n == Len(Get(entrySummaries, "summaries").a)
            overall == Get(entrySummaries, "overall_summary")
            total == Get(overall, "total_tests").n
            passed == Get(overall, "passed").n
        IN  /\ Get(overall, "total_tests") = JNum(SumTo(entrySummaries, "total_tests", n))
            /\ Get(overall, "passed") = JNum(SumTo(entrySummaries, "passed", n))
            /\ Get(overall, "failed") = JNum(SumTo(entrySummaries, "failed", n))
            /\ IsNumber(Get(overall, "success_rate"))
            /\ IF total = 0 THEN Get(overall, "success_rate") = JNum(0)
               ELSE IsRoundedRate(Get(overall, "success_rate").n, passed, total)

\* several summaries whose rate is not a whole percentage
C7_Witness ==
    /\ BothBuilt /\ HasSummaries(entrySummaries)
    /\ Len(Get(entrySummaries, "summaries").a) >= 2
    /\ Get(Get(entrySummaries, "overall_summary"), "success_rate").n % 100 # 0

\* C8: createAnalysisEntry returns null for every falsy result, and
\* App.handleAnalysisComplete then returns null and leaves analysisHistory
\* unchanged.
C8_FalsyGivesNull ==
    /\ [](EntryBuilt /\ ~Truthy(analysisResult) => entry = JNull)
    /\ [](BothBuilt /\ ~Truthy(analysisResult) => entrySummaries = JNull)
    /\ [](ephase = "handled" /\ ~Truthy(analysisResult) => returned = JNull)
    /\ [][(ephase' = "handled" /\ ~Truthy(analysisResult))
             => analysisHistory' = analysisHistory]_vars

\* a falsy result other than null and undefined, handled with a history to keep
C8_Witness ==
    /\ ephase = "handled" /\ analysisResult = JNum(0)
    /\ returned = JNull /\ analysisHistory # <<>>

MAX_MULTI_UPLOAD_FILES == 100
MIN_FILES == 1
MAX_FILES == 1

Min(a, b) == IF a <= b THEN a ELSE b

PdfSuffix == <<".", "p", "d", "f">>
FileA      == [name |-> <<"a">> \o PdfSuffix, type |-> "application/pdf"]
FileUpperA == [name |-> <<"A">> \o PdfSuffix, type |-> "application/pdf"]
FileB      == [name |-> <<"b">> \o PdfSuffix, type |-> "application/pdf"]
FileC      == [name |-> <<"c">> \o PdfSuffix, type |-> ""]
TextFile   == [name |-> <<"t", ".", "t", "x", "t">>, type |-> "text/plain"]
FileInputs == {FileUpperA, FileC, TextFile}
FileLists  == SeqsUpTo(FileInputs, MaxDrop)

\* fileName.toLowerCase().endsWith(".pdf")
EndsWithPdf(name) ==
    Len(name) >= 4 /\ SubSeq(toLowerCase(name), Len(name) - 3, Len(name)) = PdfSuffix

isPdfFile(file) == file.type = "application/pdf" \/ EndsWithPdf(file.name)

\* the server stores an uploaded file as a new report
StoreReport(stored, name) ==
    stored \cup {[id |-> Cardinality(stored) + 1, filename |-> name]}

InitialReports == StoreReport(StoreReport({}, FileA.name), FileB.name)

\* a status or feedback banner: its type, which text it is, and the counts in it
Status(type, message, ok, failed) ==
    [type |-> type, message |-> message, successCount |-> ok, failureCount |-> failed]
NoStatus == Status("none", "", 0, 0)

\* the state of a page instance; instance 0 is "not mounted"
HomeState(inst) == [inst |-> inst, selectedFiles |-> <<>>, status |-> NoStatus]
ArchiveState(inst) ==
    [inst |-> inst,
     selectedFiles |-> <<>>,
     selectedArchiveIds |-> <<>>,
     multiUploadStatus |-> NoStatus,
     isMultiUploading |-> FALSE,
     uploadProgress |-> [processed |-> 0, total |-> 0],
     archiveActionFeedback |-> NoStatus,
     archiveComparisonResult |-> <<>>,
     isArchiveProcessing |-> FALSE,
     isArchiveComparing |-> FALSE]

\* a state update made by a continuation: it is lost when the instance that
\* started the handler is no longer the mounted one
ArchiveWith(inst, changes) ==
    IF route = "archive" /\ archive.inst = inst THEN changes @@ archive ELSE archive
\* setSelectedFilesSafe / setStatusSafe: guarded by isMountedRef
HomeWith(inst, changes) ==
    IF route = "home" /\ home.inst = inst THEN changes @@ home ELSE home

\* an activation of an async handler: its closure and locals, and where it waits
Activation(kind, inst, files, ids, pc) ==
    [kind |-> kind, inst |-> inst, files |-> files, ids |-> ids, index |-> 1,
     successCount |-> 0, failureCount |-> 0, pc |-> pc,
     result |-> JNull, analysisErrorMessage |-> FALSE]

Request(kind, origin, pid, file, ids) ==
    [kind |-> kind, origin |-> origin, pid |-> pid, file |-> file, ids |-> ids,
     status |-> "pending"]

\* the request activation pid is waiting for
Pending(pid) ==
    CHOOSE i \in 1..Len(requests) : requests[i].pid = pid /\ requests[i].status = "pending"

Settle(i, ok) == [requests EXCEPT ![i].status = IF ok THEN "ok" ELSE "failed"]

\* an activation that has returned: its locals are gone, and the log drops its requests
Returned(kind) == Activation(kind, 0, <<>>, <<>>, "done")
Forget(log, pid) == SelectSeq(log, LAMBDA r : r.pid # pid)

At(pid, kind, pc) == procs[pid].kind = kind /\ procs[pid].pc = pc

\* no continuation is in the middle of its synchronous run
Quiet == \A pid \in 1..Len(procs) : procs[pid].pc # "afterLoop"

CanActivate == Len(procs) <= MaxActivations
CanStartBatch ==
    Cardinality({pid \in 1..Len(procs) : procs[pid].kind = "bulkUpload"}) < MaxBatches

\* the application after its first render on the page `start`
AppInit(start) ==
    /\ route = start
    /\ navigations = 0
    /\ home = HomeState(IF route = "home" THEN 1 ELSE 0)
    /\ archive = ArchiveState(IF route = "archive" THEN 1 ELSE 0)
    \* App's mount effect has called fetchReports
    /\ reports = {} /\ loading = TRUE /\ error = FALSE
    /\ isAnalysisProcessing = FALSE
    /\ procs = <<Activation("fetchReports", 0, <<>>, <<>>, "get")>>
    /\ requests = <<Request("getAllReports", "app", 1, <<>>, <<>>)>>
    /\ serverReports = InitialReports
    /\ analysisEngine = JStr("chatgpt") /\ analysisHistory = <<>> /\ clock = 1
    /\ FileIdle /\ EntryIdle /\ ExtraIdle

\* the router renders another route: the page is unmounted, the new one mounted
Navigate(to) ==
    /\ Quiet /\ to # route /\ navigations < MaxNavigations
    /\ route' = to
    /\ navigations' = navigations + 1
    /\ home' = HomeState(IF to = "home" THEN navigations + 2 ELSE 0)
    /\ archive' = ArchiveState(IF to = "archive" THEN navigations + 2 ELSE 0)
    /\ UNCHANGED <<procs, requests, serverReports, listVars, appVars, fileVars, entryVars, extraVars>>

\* fetchReports after getAllReports settled: try / catch / finally
FetchReportsSettled(ok) ==
    /\ reports' = IF ok THEN serverReports ELSE reports
    /\ error' = ~ok
    /\ loading' = FALSE

AppFetchSettle(pid, ok) ==
    /\ Quiet /\ At(pid, "fetchReports", "get")
    /\ FetchReportsSettled(ok)
    /\ requests' = Forget(requests, pid)
    /\ procs' = [procs EXCEPT ![pid] = Returned("fetchReports")]
    /\ UNCHANGED <<route, navigations, home, archive, serverReports,
                   isAnalysisProcessing, appVars, fileVars, entryVars, extraVars>>

(***************************************************************************)
(* ArchiveManagement: the file selection.                                  *)
(***************************************************************************)
\* normaliseFilenameForComparison on the names of the model's files, computed once
\* the n-th of a series of PDF files with different names: "paa.pdf", "pab.pdf", ...
NameChars == <<"a", "b", "c", "d", "e", "f", "p", "t", "x", "1", "-">>
NumberedFile(n) ==
    [name |-> <<"p", NameChars[((n - 1) \div Len(NameChars)) + 1],
                     NameChars[((n - 1) % Len(NameChars)) + 1]>> \o PdfSuffix,
     type |-> "application/pdf"]

NumberedFiles == {NumberedFile(n) : n \in 1..(MAX_MULTI_UPLOAD_FILES + 1)}

NormalisedName ==
    [name \in {f.name : f \in FileInputs \cup {FileA, FileB} \cup NumberedFiles} |->
        normaliseFilenameForComparison(name)]

existingFilenames(reps) == {NormalisedName[r.filename] : r \in reps} \ {<<>>}

\* selectedFiles.map(normalise).filter(Boolean)
existingNameSet(files) == {NormalisedName[files[i].name] : i \in 1..Len(files)} \ {<<>>}

RECURSIVE AcceptFiles(_, _, _)

\* limitedFiles.forEach without the comparison of the names
AcceptFiles_all(files, seen, existing) == files

\* limitedFiles.forEach: the files accepted, given the names seen so far
AcceptFiles(files, seen, existing) ==
    IF files = <<>> THEN <<>>
    ELSE LET normalized == NormalisedName[Head(files).name]
         IN  IF normalized # <<>> /\ normalized \in (existing \cup seen)
             THEN AcceptFiles(Tail(files), seen, existing)
             ELSE <<Head(files)>> \o AcceptFiles(Tail(files), seen \cup {normalized}, existing)

handleFilesAdded(state, fileList, reps) ==
    LET pdfFiles == SelectSeq(fileList, isPdfFile)
        availableSlots == MAX_MULTI_UPLOAD_FILES - Len(state.selectedFiles)
        limitedFiles == SubSeq(pdfFiles, 1, Min(availableSlots, Len(pdfFiles)))
        acceptedFiles ==
            AcceptFiles(limitedFiles, existingNameSet(state.selectedFiles), existingFilenames(reps))
        status ==
            IF Len(acceptedFiles) < Len(limitedFiles) THEN Status("error", "duplicate", 0, 0)
            ELSE IF Len(pdfFiles) > availableSlots THEN Status("warning", "limit", 0, 0)
            ELSE IF acceptedFiles = <<>> THEN Status("warning", "nothingAdded", 0, 0)
            ELSE NoStatus
    IN  IF fileList = <<>> THEN state
        ELSE IF pdfFiles = <<>>
             THEN [state EXCEPT !.multiUploadStatus = Status("error", "onlyPdf", 0, 0)]
        ELSE IF availableSlots <= 0
             THEN [state EXCEPT !.multiUploadStatus = Status("warning", "limit", 0, 0)]
        ELSE [state EXCEPT !.selectedFiles = @ \o acceptedFiles,
                           !.multiUploadStatus = status]

ArchiveUnchanged ==
    UNCHANGED <<route, navigations, home, procs, requests, serverReports,
                listVars, appVars, fileVars, entryVars, extraVars>>

\* the file input, disabled while a batch is uploading
handleFileInputChange(fileList) ==
    /\ route = "archive" /\ Quiet /\ ~archive.isMultiUploading
    /\ archive' = handleFilesAdded(archive, fileList, reports)
    /\ ArchiveUnchanged

\* the drop zone
handleDrop(fileList) ==
    /\ route = "archive" /\ Quiet
    /\ archive' = handleFilesAdded(archive, fileList, reports)
    /\ ArchiveUnchanged

handleRemoveFile(index) ==
    /\ route = "archive" /\ Quiet /\ ~archive.isMultiUploading
    /\ index \in 1..Len(archive.selectedFiles)
    /\ archive' = [archive EXCEPT !.selectedFiles =
                      SubSeq(@, 1, index - 1) \o SubSeq(@, index + 1, Len(@))]
    /\ ArchiveUnchanged

handleClearSelectedFiles ==
    /\ route = "archive" /\ Quiet
    /\ ~archive.isMultiUploading /\ archive.selectedFiles # <<>>
    /\ archive' = [archive EXCEPT !.selectedFiles = <<>>, !.multiUploadStatus = NoStatus]
    /\ ArchiveUnchanged

(***************************************************************************)
(* ArchiveManagement: handleBulkUpload.                                    *)
(***************************************************************************)
\* the button is disabled while a batch is uploading and while nothing is selected
handleBulkUpload ==
    /\ route = "archive" /\ Quiet /\ CanStartBatch
    /\ ~archive.isMultiUploading /\ archive.selectedFiles # <<>>
    /\ LET pid == Len(procs) + 1
           selectedFiles == archive.selectedFiles
       IN  /\ archive' = [archive EXCEPT
                  !.isMultiUploading = TRUE,
                  !.uploadProgress = [processed |-> 0, total |-> Len(selectedFiles)],
                  !.multiUploadStatus = Status("info", "uploading", 0, 0)]
           /\ procs' = Append(procs,
                  Activation("bulkUpload", archive.inst, selectedFiles, <<>>, "upload"))
           \* the loop runs up to its first await: uploadReport(selectedFiles[0], analysisEngine)
           /\ requests' = Append(requests,
                  Request("upload", "bulkUpload", pid, selectedFiles[1].name, <<>>))
    /\ UNCHANGED <<route, navigations, home, serverReports, listVars, appVars,
                   fileVars, entryVars, extraVars>>

\* try { successCount += 1 } catch { failureCount += 1 }
CountsAfter(p, ok) ==
    IF ok THEN [p EXCEPT !.successCount = @ + 1] ELSE [p EXCEPT !.failureCount = @ + 1]

ProgressAfter_total(p) == [processed |-> Len(p.files), total |-> Len(p.files)]

\* finally { setUploadProgress({ processed: index + 1, total }) }; p.index counts from 1
ProgressAfter(p) == [processed |-> p.index, total |-> Len(p.files)]

LoopContinues_untilFailure(p, ok) == p.index < Len(p.files) /\ ok

\* index += 1; index < selectedFiles.length, whatever the outcome of the upload was
LoopContinues(p, ok) == p.index < Len(p.files)

\* uploadReport settles: the rest of this iteration, then either the next
\* iteration up to its await or the end of the loop
BulkUploadSettle(pid, ok) ==
    /\ Quiet /\ At(pid, "bulkUpload", "upload")
    /\ LET p == procs[pid]
           counted == CountsAfter(p, ok)
       IN  /\ serverReports' =
                  IF ok THEN StoreReport(serverReports, p.files[p.index].name)
                  ELSE serverReports
           /\ archive' = ArchiveWith(p.inst, [uploadProgress |-> ProgressAfter(p)])
           /\ IF LoopContinues(p, ok)
              THEN /\ procs' = [procs EXCEPT ![pid] = [counted EXCEPT !.index = @ + 1]]
                   /\ requests' = Append(Settle(Pending(pid), ok),
                          Request("upload", "bulkUpload", pid, p.files[p.index + 1].name, <<>>))
              ELSE /\ procs' = [procs EXCEPT ![pid] = [counted EXCEPT !.pc = "afterLoop"]]
                   /\ requests' = Settle(Pending(pid), ok)
    /\ UNCHANGED <<route, navigations, home, listVars, appVars, fileVars, entryVars, extraVars>>

BulkStatus(p) ==
    IF p.failureCount > 0 /\ p.successCount > 0
    THEN Status("warning", "partial", p.successCount, p.failureCount)
    ELSE IF p.failureCount > 0 THEN Status("error", "failed", 0, p.failureCount)
    ELSE Status("success", "uploaded", p.successCount, 0)

\* the statements after the loop, up to `await onRefresh()`
BulkAfterLoop(pid) ==
    /\ At(pid, "bulkUpload", "afterLoop")
    /\ LET p == procs[pid]
       IN  /\ archive' = ArchiveWith(p.inst,
                  [isMultiUploading |-> FALSE,
                   selectedFiles |-> <<>>,
                   uploadProgress |-> [processed |-> 0, total |-> 0],
                   multiUploadStatus |-> BulkStatus(p)])
           /\ IF p.successCount > 0
              THEN \* onRefresh is App.fetchReports: setLoading(true), getAllReports()
                   /\ loading' = TRUE
                   /\ requests' = Append(requests,
                          Request("getAllReports", "bulkUpload", pid, <<>>, <<>>))
                   /\ procs' = [procs EXCEPT ![pid].pc = "refresh"]
              ELSE /\ procs' = [procs EXCEPT ![pid] = Returned("bulkUpload")]
                   /\ requests' = Forget(requests, pid)
                   /\ UNCHANGED loading
    /\ UNCHANGED <<route, navigations, home, serverReports, reports, error,
                   isAnalysisProcessing, appVars, fileVars, entryVars, extraVars>>

\* fetchReports never rejects, so the catch around onRefresh() never runs
BulkRefreshSettle(pid, ok) ==
    /\ Quiet /\ At(pid, "bulkUpload", "refresh")
    /\ FetchReportsSettled(ok)
    /\ requests' = Forget(requests, pid)
    /\ procs' = [procs EXCEPT ![pid] = Returned("bulkUpload")]
    /\ UNCHANGED <<route, navigations, home, archive, serverReports,
                   isAnalysisProcessing, appVars, fileVars, entryVars, extraVars>>

(***************************************************************************)
(* ArchiveManagement: selection, compare and analyze.                      *)
(***************************************************************************)
toggleArchiveSelection(id) ==
    /\ route = "archive" /\ Quiet
    /\ id \in {r.id : r \in reports}
    /\ archive' = [archive EXCEPT !.selectedArchiveIds =
                      IF \E i \in 1..Len(@) : @[i] = id
                      THEN SelectSeq(@, LAMBDA x : x # id)
                      ELSE Append(@, id)]
    /\ ArchiveUnchanged

\* the buttons are rendered when the archive lists a report
handleCompareSelected ==
    /\ route = "archive" /\ Quiet
    /\ reports # {} /\ ~archive.isArchiveComparing
    /\ LET ids == archive.selectedArchiveIds
       IN  \/ /\ Len(ids) < 2
              /\ archive' = [archive EXCEPT
                     !.archiveActionFeedback = Status("warning", "atLeastTwo", 0, 0)]
              /\ UNCHANGED <<procs, requests>>
           \/ /\ Len(ids) > 2
              /\ archive' = [archive EXCEPT
                     !.archiveActionFeedback = Status("warning", "atMostTwo", 0, 0)]
              /\ UNCHANGED <<procs, requests>>
           \/ /\ Len(ids) = 2 /\ CanActivate
              /\ archive' = [archive EXCEPT
                     !.isArchiveComparing = TRUE,
                     !.archiveActionFeedback = Status("info", "comparing", 0, 0)]
              /\ procs' = Append(procs,
                     Activation("archiveCompare", archive.inst, <<>>, ids, "compare"))
              /\ requests' = Append(requests,
                     Request("compare", "archiveCompare", Len(procs) + 1, <<>>, ids))
    /\ UNCHANGED <<route, navigations, home, serverReports, listVars, appVars,
                   fileVars, entryVars, extraVars>>

CompareSettle(pid, ok) ==
    /\ Quiet /\ At(pid, "archiveCompare", "compare")
    /\ LET p == procs[pid]
       IN  archive' = ArchiveWith(p.inst,
               IF ok
               THEN [archiveComparisonResult |-> p.ids,
                     archiveActionFeedback |-> Status("success", "compared", 0, 0),
                     isArchiveComparing |-> FALSE]
               ELSE [archiveComparisonResult |-> <<>>,
                     archiveActionFeedback |-> Status("error", "compareFailed", 0, 0),
                     isArchiveComparing |-> FALSE])
    /\ requests' = Forget(requests, pid)
    /\ procs' = [procs EXCEPT ![pid] = Returned("archiveCompare")]
    /\ UNCHANGED <<route, navigations, home, serverReports, listVars, appVars,
                   fileVars, entryVars, extraVars>>

\* a selection check that lets every selection but the empty one pass
PassesLengthChecks_anyNumber(ids) == Len(ids) >= 1

\* neither selectedIds.length === 0 nor selectedIds.length > 2
PassesLengthChecks(ids) == Len(ids) \in 1..2

handleAnalyzeSelected ==
    /\ route = "archive" /\ Quiet
    /\ reports # {} /\ ~archive.isArchiveProcessing
    /\ LET ids == archive.selectedArchiveIds
       IN  \/ /\ Len(ids) = 0
              /\ archive' = [archive EXCEPT
                     !.archiveActionFeedback = Status("warning", "selectReport", 0, 0)]
              /\ UNCHANGED <<procs, requests>>
           \/ /\ Len(ids) > 2
              /\ archive' = [archive EXCEPT
                     !.archiveActionFeedback = Status("warning", "atMostTwo", 0, 0)]
              /\ UNCHANGED <<procs, requests>>
           \/ /\ PassesLengthChecks(ids) /\ CanActivate
              /\ archive' = [archive EXCEPT
                     !.isArchiveProcessing = TRUE,
                     !.archiveActionFeedback = Status("info", "analyzing", Len(ids), 0)]
              /\ procs' = Append(procs,
                     Activation("archiveAnalyze", archive.inst, <<>>, ids, "analyze"))
              /\ requests' = Append(requests,
                     Request("analyzeArchived", "archiveAnalyze", Len(procs) + 1, <<>>, ids))
    /\ UNCHANGED <<route, navigations, home, serverReports, listVars, appVars,
                   fileVars, entryVars, extraVars>>

\* what the two analysis endpoints may answer
AnalysisPayloads == {SampleResponse}

\* onAnalysisComplete(result, context), reaching App.handleAnalysisComplete
AnalysisCompleted(res, source) ==
    LET e == handleAnalysisComplete(res,
                 JObj("source" :> JStr(source) @@ "engineKey" :> analysisEngine),
                 analysisEngine, clock)
    IN  /\ analysisHistory' = HistoryAfter(analysisHistory, e)
        /\ clock' = clock + 1
        /\ UNCHANGED analysisEngine

AnalyzeSelectedSettle(pid, ok, payload) ==
    /\ Quiet /\ At(pid, "archiveAnalyze", "analyze")
    /\ LET p == procs[pid]
           res == normalizeAnalyzeFilesResponse(payload)
       IN  IF ok
           THEN /\ AnalysisCompleted(res, "archive")
                /\ archive' = ArchiveWith(p.inst,
                       [archiveActionFeedback |-> Status("success", "analyzed", 0, 0),
                        selectedArchiveIds |-> <<>>,
                        isArchiveProcessing |-> FALSE])
           ELSE /\ archive' = ArchiveWith(p.inst,
                       [archiveActionFeedback |-> Status("error", "analyzeFailed", 0, 0),
                        isArchiveProcessing |-> FALSE])
                /\ UNCHANGED appVars
    /\ procs' = [procs EXCEPT ![pid] = Returned("archiveAnalyze")]
    /\ requests' = Forget(requests, pid)
    /\ UNCHANGED <<route, navigations, home, serverReports, listVars, fileVars, entryVars, extraVars>>

(***************************************************************************)
(* UploadForm on the home page.                                            *)
(***************************************************************************)
\* a sanitizeFiles that keeps the PDF files it can take
sanitizeFiles_keepsValid(fileList) ==
    [files |-> SubSeq(SelectSeq(fileList, isPdfFile), 1,
                      Min(MAX_FILES, Len(SelectSeq(fileList, isPdfFile)))),
     error |-> IF SelectSeq(fileList, isPdfFile) = <<>> THEN "onlyPdf" ELSE ""]

sanitizeFiles(fileList) ==
    IF fileList = <<>> THEN [files |-> <<>>, error |-> "noFile"]
    ELSE IF \E i \in 1..Len(fileList) : ~isPdfFile(fileList[i])
         THEN [files |-> <<>>, error |-> "onlyPdf"]
    ELSE IF Len(fileList) > MAX_FILES THEN [files |-> <<>>, error |-> "tooMany"]
    ELSE [files |-> SubSeq(fileList, 1, Min(MAX_FILES, Len(fileList))), error |-> ""]

HomeUnchanged ==
    UNCHANGED <<route, navigations, archive, procs, requests, serverReports,
                listVars, appVars, fileVars, entryVars, extraVars>>

\* handleFileChange and handleDrop: both return at once while processing
\* handleFileSelection(fileList): the form after it
FileSelection(state, fileList) ==
    LET sanitized == sanitizeFiles(fileList)
    IN  IF sanitized.error # ""
        THEN [state EXCEPT !.selectedFiles = <<>>,
                           !.status = Status("error", sanitized.error, 0, 0)]
        ELSE [state EXCEPT !.selectedFiles = sanitized.files,
                           !.status = NoStatus]

handleFileSelection(fileList) ==
    /\ route = "home" /\ Quiet /\ ~isAnalysisProcessing
    /\ home' = FileSelection(home, fileList)
    /\ HomeUnchanged

handleClearSelection ==
    /\ route = "home" /\ Quiet
    /\ ~isAnalysisProcessing /\ home.selectedFiles # <<>>
    /\ home' = [home EXCEPT !.selectedFiles = <<>>, !.status = NoStatus]
    /\ HomeUnchanged

\* the submit button is disabled while processing and while nothing is selected
handleUploadAndAnalyze ==
    /\ route = "home" /\ Quiet /\ CanActivate
    /\ ~isAnalysisProcessing /\ home.selectedFiles # <<>>
    /\ LET filesToProcess ==
               SubSeq(home.selectedFiles, 1, Min(MAX_FILES, Len(home.selectedFiles)))
       IN  /\ Len(filesToProcess) >= MIN_FILES
           /\ isAnalysisProcessing' = TRUE
           /\ home' = [home EXCEPT !.status = NoStatus]
           /\ procs' = Append(procs,
                  Activation("homeUpload", home.inst, filesToProcess, <<>>, "upload"))
           /\ requests' = Append(requests,
                  Request("upload", "homeUpload", Len(procs) + 1, filesToProcess[1].name, <<>>))
    /\ UNCHANGED <<route, navigations, archive, serverReports, reports, loading, error,
                   appVars, fileVars, entryVars, extraVars>>

HomeStatus(p) ==
    IF p.analysisErrorMessage THEN Status("error", "analysisFailed", p.successCount, p.failureCount)
    ELSE IF p.successCount = 0 THEN Status("error", "notUploaded", 0, p.failureCount)
    ELSE IF p.failureCount > 0 THEN Status("warning", "partial", p.successCount, p.failureCount)
    ELSE Status("success", "uploaded", p.successCount, 0)

\* an upload form that asks for the analysis whatever the uploads gave
AnalysisWanted_always(p) == TRUE

\* if (successCount > 0): the analysis is requested
AnalysisWanted(p) == p.successCount > 0

\* uploadReport settles: the next file, or the analysis request, or (nothing
\* uploaded) the rest of the handler
HomeUploadSettle(pid, ok) ==
    /\ Quiet /\ At(pid, "homeUpload", "upload")
    /\ LET p == procs[pid]
           counted == CountsAfter(p, ok)
       IN  /\ serverReports' =
                  IF ok THEN StoreReport(serverReports, p.files[p.index].name)
                  ELSE serverReports
           /\ IF p.index < Len(p.files)
              THEN /\ procs' = [procs EXCEPT ![pid] = [counted EXCEPT !.index = @ + 1]]
                   /\ requests' = Append(Settle(Pending(pid), ok),
                          Request("upload", "homeUpload", pid, p.files[p.index + 1].name, <<>>))
                   /\ UNCHANGED <<home, isAnalysisProcessing>>
              ELSE IF AnalysisWanted(counted)
              THEN /\ procs' = [procs EXCEPT ![pid] = [counted EXCEPT !.pc = "analyze"]]
                   /\ requests' = Append(Settle(Pending(pid), ok),
                          Request("analyzeFiles", "homeUpload", pid, <<>>, <<>>))
                   /\ UNCHANGED <<home, isAnalysisProcessing>>
              ELSE \* onAnalysisComplete(null) changes nothing; finally: onProcessingEnd()
                   /\ procs' = [procs EXCEPT ![pid] = Returned("homeUpload")]
                   /\ requests' = Forget(requests, pid)
                   /\ home' = HomeWith(p.inst,
                          [selectedFiles |-> <<>>, status |-> HomeStatus(counted)])
                   /\ isAnalysisProcessing' = FALSE
    /\ UNCHANGED <<route, navigations, archive, reports, loading, error,
                   appVars, fileVars, entryVars, extraVars>>

\* analyzeReportsWithAI settles; then `await onUploadSuccess()`, App.fetchReports
HomeAnalyzeSettle(pid, ok, payload) ==
    /\ Quiet /\ At(pid, "homeUpload", "analyze")
    /\ LET p == procs[pid]
       IN  /\ procs' = [procs EXCEPT
                  ![pid].result = IF ok THEN normalizeAnalyzeFilesResponse(payload) ELSE JNull,
                  ![pid].analysisErrorMessage = ~ok,
                  ![pid].pc = "refresh"]
           /\ home' = HomeWith(p.inst, [selectedFiles |-> <<>>])
    /\ loading' = TRUE
    /\ requests' = Append(Settle(Pending(pid), ok),
           Request("getAllReports", "homeUpload", pid, <<>>, <<>>))
    /\ UNCHANGED <<route, navigations, archive, serverReports, reports, error,
                   isAnalysisProcessing, appVars, fileVars, entryVars, extraVars>>

\* fetchReports settles; the rest of the handler and its finally
HomeRefreshSettle(pid, ok) ==
    /\ Quiet /\ At(pid, "homeUpload", "refresh")
    /\ FetchReportsSettled(ok)
    /\ LET p == procs[pid]
       IN  /\ IF Truthy(p.result) THEN AnalysisCompleted(p.result, "home")
              ELSE UNCHANGED appVars
           /\ home' = HomeWith(p.inst, [status |-> HomeStatus(p)])
    /\ isAnalysisProcessing' = FALSE
    /\ requests' = Forget(requests, pid)
    /\ procs' = [procs EXCEPT ![pid] = Returned("homeUpload")]
    /\ UNCHANGED <<route, navigations, archive, serverReports, fileVars, entryVars, extraVars>>

(***************************************************************************)
(* The specifications of the two pages.  Each has App, the server, the     *)
(* router moving between the page and another route, and the page's own    *)
(* handlers.                                                               *)
(***************************************************************************)
ArchiveInit == AppInit("archive")
HomeInit == AppInit("home")

AppSteps(routes) ==
    \/ \E to \in routes : Navigate(to)
    \/ \E pid \in 1..Len(procs), ok \in BOOLEAN :
          AppFetchSettle(pid, ok)

\* the upload card of the archive page; the report table's handlers neither
\* read nor write what these handlers use
ArchiveUploadNext ==
    \/ AppSteps({"archive", "other"})
    \/ \E fileList \in FileLists : handleFileInputChange(fileList)
    \/ \E fileList \in FileLists : handleDrop(fileList)
    \/ \E index \in 1..Len(archive.selectedFiles) : handleRemoveFile(index)
    \/ handleClearSelectedFiles
    \/ handleBulkUpload
    \/ \E pid \in 1..Len(procs), ok \in BOOLEAN :
          BulkUploadSettle(pid, ok)
    \/ \E pid \in 1..Len(procs) : BulkAfterLoop(pid)
    \/ \E pid \in 1..Len(procs), ok \in BOOLEAN :
          BulkRefreshSettle(pid, ok)

SpecArchiveUpload == ArchiveInit /\ [][ArchiveUploadNext]_vars

\* the report table of the archive page
ArchiveReportsNext ==
    \/ AppSteps({"archive", "other"})
    \/ \E id \in {r.id : r \in reports} : toggleArchiveSelection(id)
    \/ handleCompareSelected
    \/ \E pid \in 1..Len(procs), ok \in BOOLEAN :
          CompareSettle(pid, ok)
    \/ handleAnalyzeSelected
    \/ \E pid \in 1..Len(procs), ok \in BOOLEAN, payload \in AnalysisPayloads :
          AnalyzeSelectedSettle(pid, ok, payload)

SpecArchiveReports == ArchiveInit /\ [][ArchiveReportsNext]_vars

HomeNext ==
    \/ AppSteps({"home", "other"})
    \/ \E fileList \in FileLists : handleFileSelection(fileList)
    \/ handleClearSelection
    \/ handleUploadAndAnalyze
    \/ \E pid \in 1..Len(procs), ok \in BOOLEAN :
          HomeUploadSettle(pid, ok)
    \/ \E pid \in 1..Len(procs), ok \in BOOLEAN, payload \in AnalysisPayloads :
          HomeAnalyzeSettle(pid, ok, payload)
    \/ \E pid \in 1..Len(procs), ok \in BOOLEAN :
          HomeRefreshSettle(pid, ok)

SpecHome == HomeInit /\ [][HomeNext]_vars

(***************************************************************************)
(* TestReportsBoard on the route /r80.  The reports of the model are all   *)
(* reports the board lists.  The analysis engine changes on /settings.     *)
(***************************************************************************)
BoardTitle == "R80 Darbe Testleri"
Engines == {JStr("chatgpt"), JStr("claude")}

\* `test-reports-board::${engine}::${normalizedTitle}`
storageKey(title, engine) ==
    <<"test-reports-board", IF Truthy(engine) THEN engine.s ELSE "default", title>>

\* window.sessionStorage.getItem(storageKey) === "processing"
readPersistedProcessing(storage, key) == key \in storage

persistProcessingState_keepsEntry(storage, key, value) == storage \cup {key}

\* setItem(storageKey, "processing") or removeItem(storageKey)
persistProcessingState(storage, key, value) ==
    IF value THEN storage \cup {key} ELSE storage \ {key}

\* no board is mounted
NoBoard ==
    [inst |-> 0, selectedIds |-> <<>>, actionMessage |-> "", isProcessing |-> FALSE,
     sectionAnalyses |-> <<>>, compareResult |-> <<>>, isComparing |-> FALSE]

\* the state of a board when it is mounted: useState(() => readPersistedProcessing())
BoardState(inst, storage, engine) ==
    [NoBoard EXCEPT !.inst = inst,
                    !.isProcessing =
                        readPersistedProcessing(storage, storageKey(BoardTitle, engine))]

\* setState of a board instance; nothing happens once the instance is unmounted
BoardWith(inst, changes) ==
    IF route = "r80" /\ board.inst = inst THEN changes @@ board ELSE board

\* the three reports the server holds when the board is used
BoardReports == StoreReport(InitialReports, FileC.name)

\* the application after its first render on /r80, the server holding `stored`
BoardInit(stored) ==
    /\ route = "r80" /\ navigations = 0
    /\ home = HomeState(0) /\ archive = ArchiveState(0)
    /\ sessionStorage = {}
    /\ analysisEngine = JStr("chatgpt") /\ analysisHistory = <<>> /\ clock = 1
    /\ board = BoardState(1, sessionStorage, analysisEngine)
    /\ reports = {} /\ loading = TRUE /\ error = FALSE
    /\ isAnalysisProcessing = FALSE
    /\ procs = <<Activation("fetchReports", 0, <<>>, <<>>, "get")>>
    /\ requests = <<Request("getAllReports", "app", 1, <<>>, <<>>)>>
    /\ serverReports = stored
    /\ FileIdle /\ EntryIdle /\ BannerIdle /\ ViewIdle /\ MoreIdle

notBoard ==
    <<home, archive, serverReports, isAnalysisProcessing, fileVars, entryVars, bannerVars,
      viewVars, moreVars>>

\* the router renders another route
BoardNavigate(to) ==
    /\ Quiet /\ to # route /\ navigations < MaxNavigations
    /\ route' = to
    /\ navigations' = navigations + 1
    /\ board' = IF to = "r80"
                THEN BoardState(navigations + 2, sessionStorage, analysisEngine)
                ELSE NoBoard
    /\ UNCHANGED <<sessionStorage, procs, requests, reports, loading, error,
                   appVars, notBoard>>

\* SettingsPanel: onEngineChange={setAnalysisEngine}
setAnalysisEngine(engine) ==
    /\ Quiet /\ route = "settings" /\ engine # analysisEngine
    /\ analysisEngine' = engine
    /\ UNCHANGED <<route, navigations, boardVars, procs, requests, reports, loading,
                   error, analysisHistory, clock, notBoard>>

\* the browser reloads the page: every script state starts again, the running
\* handlers are gone, the session storage and the location stay
Reload ==
    /\ Quiet /\ navigations < MaxNavigations
    /\ navigations' = navigations + 1
    /\ analysisEngine' = JStr("chatgpt") /\ analysisHistory' = <<>>
    /\ reports' = {} /\ loading' = TRUE /\ error' = FALSE
    /\ procs' = <<Activation("fetchReports", 0, <<>>, <<>>, "get")>>
    /\ requests' = <<Request("getAllReports", "app", 1, <<>>, <<>>)>>
    /\ board' = IF route = "r80"
                THEN BoardState(navigations + 2, sessionStorage, JStr("chatgpt"))
                ELSE NoBoard
    /\ UNCHANGED <<route, sessionStorage, clock, notBoard>>

BoardUnchanged ==
    UNCHANGED <<route, navigations, sessionStorage, procs, requests, reports,
                loading, error, appVars, notBoard>>

toggleSelection(id) ==
    /\ Quiet /\ route = "r80"
    /\ id \in {r.id : r \in reports}
    /\ board' = [board EXCEPT !.selectedIds =
                    IF \E i \in 1..Len(@) : @[i] = id
                    THEN SelectSeq(@, LAMBDA x : x # id)
                    ELSE Append(@, id)]
    /\ BoardUnchanged

(***************************************************************************)
(* TestReportsBoard: handleCompare.                                        *)
(***************************************************************************)
\* the closure of a board handler: the instance, its storage key and engine
BoardActivation(kind, ids, pc) ==
    [key |-> storageKey(BoardTitle, analysisEngine), engine |-> analysisEngine]
        @@ Activation(kind, board.inst, <<>>, ids, pc)

idsToCompare_first(ids) == SubSeq(ids, 1, Min(1, Len(ids)))

\* const idsToCompare = selectedIds.slice(0, 2)
idsToCompare(ids) == SubSeq(ids, 1, Min(2, Len(ids)))

\* the button is disabled while the board is processing or comparing
handleCompare ==
    /\ Quiet /\ route = "r80"
    /\ ~board.isProcessing /\ ~board.isComparing
    /\ LET ids == board.selectedIds
       IN  \/ /\ Len(ids) < 2
              /\ board' = [board EXCEPT !.actionMessage = "atLeastTwo"]
              /\ UNCHANGED <<procs, requests>>
           \/ /\ Len(ids) > 2
              /\ board' = [board EXCEPT !.actionMessage = "atMostTwo"]
              /\ UNCHANGED <<procs, requests>>
           \/ /\ Len(ids) = 2 /\ CanActivate
              /\ board' = [board EXCEPT !.isComparing = TRUE,
                                        !.actionMessage = "comparing"]
              /\ procs' = Append(procs, BoardActivation("boardCompare", ids, "compare"))
              /\ requests' = Append(requests,
                     Request("compare", "boardCompare", Len(procs) + 1, <<>>,
                             idsToCompare(ids)))
    /\ UNCHANGED <<route, navigations, sessionStorage, reports, loading, error,
                   appVars, notBoard>>

BoardCompareSettle(pid, ok) ==
    /\ Quiet /\ At(pid, "boardCompare", "compare")
    /\ LET p == procs[pid]
       IN  board' = BoardWith(p.inst,
               IF ok
               THEN [compareResult |-> p.ids, actionMessage |-> "compared",
                     isComparing |-> FALSE]
               ELSE [compareResult |-> <<>>, actionMessage |-> "compareFailed",
                     isComparing |-> FALSE])
    /\ requests' = Forget(requests, pid)
    /\ procs' = [procs EXCEPT ![pid] = Returned("boardCompare")]
    /\ UNCHANGED <<route, navigations, sessionStorage, reports, loading, error,
                   appVars, notBoard>>

(***************************************************************************)
(* TestReportsBoard: handleAnalyze.                                        *)
(***************************************************************************)
\* selectedIds.map(async (id) => ..): every callback runs up to its await, so a
\* download is requested for each selected report the list holds
Downloads(ids, pid) ==
    LET found == SelectSeq(ids, LAMBDA id : id \in {r.id : r \in reports})
    IN  [i \in 1..Len(found) |->
            Request("download", "boardAnalyze", pid, <<>>, <<found[i]>>)]

\* an end of the analysis that clears the selection whatever the outcome was
AnalyzeFinally_clearsSelection(p, changes) ==
    /\ sessionStorage' = persistProcessingState(sessionStorage, p.key, FALSE)
    /\ board' = BoardWith(p.inst, [selectedIds |-> <<>>, isProcessing |-> FALSE] @@ changes)

\* finally { persistProcessingState(false); if (mounted) setIsProcessing(false) }
AnalyzeFinally(p, changes) ==
    /\ sessionStorage' = persistProcessingState(sessionStorage, p.key, FALSE)
    /\ board' = BoardWith(p.inst, changes @@ [isProcessing |-> FALSE])

handleAnalyze ==
    /\ Quiet /\ route = "r80"
    /\ ~board.isProcessing
    /\ LET ids == board.selectedIds
           pid == Len(procs) + 1
           started == BoardActivation("boardAnalyze", ids, "download")
       IN  \/ /\ Len(ids) = 0
              /\ board' = [board EXCEPT !.actionMessage = "selectReport"]
              /\ UNCHANGED <<procs, requests, sessionStorage>>
           \/ /\ Len(ids) > 2
              /\ board' = [board EXCEPT !.actionMessage = "atMostTwo"]
              /\ UNCHANGED <<procs, requests, sessionStorage>>
           \/ /\ PassesLengthChecks(ids) /\ CanActivate
              /\ IF \A i \in 1..Len(ids) : ids[i] \in {r.id : r \in reports}
                 THEN /\ board' = [board EXCEPT !.isProcessing = TRUE,
                                                !.actionMessage = "analyzing"]
                      /\ sessionStorage' =
                             persistProcessingState(sessionStorage, started.key, TRUE)
                      /\ procs' = Append(procs, started)
                      /\ requests' = requests \o Downloads(ids, pid)
                 \* a selected report is not in the list: Promise.all rejects
                 \* before any answer arrives, the downloads are left behind
                 ELSE /\ board' = [board EXCEPT !.isProcessing = FALSE,
                                                !.actionMessage = "notFound"]
                      /\ sessionStorage' =
                             persistProcessingState(
                                 persistProcessingState(sessionStorage, started.key, TRUE),
                                 started.key, FALSE)
                      /\ procs' = Append(procs, Returned("boardAnalyze"))
                      /\ UNCHANGED requests
    /\ UNCHANGED <<route, navigations, reports, loading, error, appVars, notBoard>>

\* the download of request i settles; Promise.all resolves when the last one
\* has, and rejects with the first that fails
BoardDownloadSettle(pid, i, ok) ==
    /\ Quiet /\ At(pid, "boardAnalyze", "download")
    /\ i \in 1..Len(requests)
    /\ requests[i].pid = pid /\ requests[i].status = "pending"
    /\ LET p == procs[pid]
           settled == Settle(i, ok)
           waiting == \E j \in 1..Len(settled) :
                          settled[j].pid = pid /\ settled[j].status = "pending"
       IN  IF ok
           THEN /\ IF waiting
                   THEN /\ requests' = settled
                        /\ UNCHANGED procs
                   ELSE /\ requests' = Append(settled,
                               Request("analyzeFiles", "boardAnalyze", pid, <<>>, p.ids))
                        /\ procs' = [procs EXCEPT ![pid].pc = "analyze"]
                /\ UNCHANGED boardVars
           ELSE /\ AnalyzeFinally(p, [actionMessage |-> "analyzeFailed"])
                /\ requests' = Forget(requests, pid)
                /\ procs' = [procs EXCEPT ![pid] = Returned("boardAnalyze")]
    /\ UNCHANGED <<route, navigations, reports, loading, error, appVars, notBoard>>

\* sectionEntry = entryFromParent || createAnalysisEntry(result, ..)
SectionEntry(res, engine, now) ==
    LET context == JObj("source" :> JStr(BoardTitle) @@ "engineKey" :> engine)
        entryFromParent == handleAnalysisComplete(res, context, engine, now)
    IN  IF Truthy(entryFromParent) THEN entryFromParent
        ELSE createAnalysisEntry(res, context, now)

\* array.slice(start, end), start and end counted from 0 and within the array
Slice(array, start, end) == SubSeq(array, start + 1, Min(end, Len(array)))

\* a board that keeps every entry
SectionAnalysesAfter_all(prev, sectionEntry) == <<sectionEntry>> \o prev

\* setSectionAnalyses((prev) => [sectionEntry, ...prev].slice(0, 2))
SectionAnalysesAfter(prev, sectionEntry) == Slice(<<sectionEntry>> \o prev, 0, 2)

BoardAnalyzeSettle(pid, ok, payload) ==
    /\ Quiet /\ At(pid, "boardAnalyze", "analyze")
    /\ LET p == procs[pid]
           res == normalizeAnalyzeFilesResponse(payload)
           context == JObj("source" :> JStr(BoardTitle) @@ "engineKey" :> p.engine)
           sectionEntry == SectionEntry(res, p.engine, clock)
       IN  IF ok
           THEN /\ analysisHistory' =
                       HistoryAfter(analysisHistory,
                                    handleAnalysisComplete(res, context, p.engine, clock))
                /\ clock' = clock + 1
                /\ AnalyzeFinally(p,
                       [actionMessage |-> "analyzed", selectedIds |-> <<>>,
                        sectionAnalyses |->
                            IF Truthy(sectionEntry)
                            THEN SectionAnalysesAfter(board.sectionAnalyses, sectionEntry)
                            ELSE board.sectionAnalyses])
           ELSE /\ AnalyzeFinally(p, [actionMessage |-> "analyzeFailed"])
                /\ UNCHANGED <<analysisHistory, clock>>
    /\ requests' = Forget(requests, pid)
    /\ procs' = [procs EXCEPT ![pid] = Returned("boardAnalyze")]
    /\ UNCHANGED <<route, navigations, reports, loading, error, analysisEngine, notBoard>>

\* the analysis of the selected reports, with engine changes and page reloads
BoardAnalyzeNext ==
    \/ \E to \in {"r80", "settings"} : BoardNavigate(to)
    \/ \E pid \in 1..Len(procs), ok \in BOOLEAN : AppFetchSettle(pid, ok)
    \/ \E id \in {r.id : r \in reports} : toggleSelection(id)
    \/ Reload
    \/ \E engine \in Engines : setAnalysisEngine(engine)
    \/ handleAnalyze
    \/ \E pid \in 1..Len(procs), i \in 1..Len(requests), ok \in BOOLEAN :
          BoardDownloadSettle(pid, i, ok)
    \/ \E pid \in 1..Len(procs), ok \in BOOLEAN, payload \in AnalysisPayloads :
          BoardAnalyzeSettle(pid, ok, payload)

BoardAnalyzeInit == BoardInit(InitialReports)

SpecBoardAnalyze == BoardAnalyzeInit /\ [][BoardAnalyzeNext]_vars

(***************************************************************************)
(* The two comparisons: the archive page and the board, with three reports *)
(* on the server so that more than two can be selected.                    *)
(***************************************************************************)
CompareInit ==
    /\ route \in {"archive", "r80"} /\ navigations = 0
    /\ home = HomeState(0)
    /\ archive = ArchiveState(IF route = "archive" THEN 1 ELSE 0)
    /\ sessionStorage = {}
    /\ analysisEngine = JStr("chatgpt") /\ analysisHistory = <<>> /\ clock = 1
    /\ board = IF route = "r80" THEN BoardState(1, sessionStorage, analysisEngine)
               ELSE NoBoard
    /\ reports = {} /\ loading = TRUE /\ error = FALSE
    /\ isAnalysisProcessing = FALSE
    /\ procs = <<Activation("fetchReports", 0, <<>>, <<>>, "get")>>
    /\ requests = <<Request("getAllReports", "app", 1, <<>>, <<>>)>>
    /\ serverReports = BoardReports
    /\ FileIdle /\ EntryIdle /\ BannerIdle /\ ViewIdle /\ MoreIdle

\* the router renders the other of the two pages
CompareNavigate(to) ==
    /\ Quiet /\ to # route /\ navigations < MaxNavigations
    /\ route' = to
    /\ navigations' = navigations + 1
    /\ archive' = ArchiveState(IF to = "archive" THEN navigations + 2 ELSE 0)
    /\ board' = IF to = "r80"
                THEN BoardState(navigations + 2, sessionStorage, analysisEngine)
                ELSE NoBoard
    /\ UNCHANGED <<home, sessionStorage, procs, requests, serverReports, listVars,
                   appVars, fileVars, entryVars, bannerVars, viewVars,
                   moreVars>>

CompareNext ==
    \/ \E to \in {"archive", "r80"} : CompareNavigate(to)
    \/ \E pid \in 1..Len(procs), ok \in BOOLEAN : AppFetchSettle(pid, ok)
    \/ \E id \in {r.id : r \in reports} : toggleArchiveSelection(id)
    \/ handleCompareSelected
    \/ \E pid \in 1..Len(procs), ok \in BOOLEAN : CompareSettle(pid, ok)
    \/ \E id \in {r.id : r \in reports} : toggleSelection(id)
    \/ handleCompare
    \/ \E pid \in 1..Len(procs), ok \in BOOLEAN : BoardCompareSettle(pid, ok)

SpecCompare == CompareInit /\ [][CompareNext]_vars

(***************************************************************************)
(* The report actions of the two pages together: selection, comparison and *)
(* analysis on the archive page and on the board.                          *)
(***************************************************************************)
\* the analysis of the selected reports on the two pages
ReanalysisNext ==
    \/ handleAnalyzeSelected
    \/ \E pid \in 1..Len(procs), ok \in BOOLEAN, payload \in AnalysisPayloads :
          AnalyzeSelectedSettle(pid, ok, payload)
    \/ handleAnalyze
    \/ \E pid \in 1..Len(procs), i \in 1..Len(requests), ok \in BOOLEAN :
          BoardDownloadSettle(pid, i, ok)
    \/ \E pid \in 1..Len(procs), ok \in BOOLEAN, payload \in AnalysisPayloads :
          BoardAnalyzeSettle(pid, ok, payload)

AnalyzeNext ==
    \/ \E to \in {"archive", "r80"} : CompareNavigate(to)
    \/ \E pid \in 1..Len(procs), ok \in BOOLEAN : AppFetchSettle(pid, ok)
    \/ \E id \in {r.id : r \in reports} : toggleArchiveSelection(id)
    \/ \E id \in {r.id : r \in reports} : toggleSelection(id)
    \/ ReanalysisNext

SpecAnalyze == CompareInit /\ [][AnalyzeNext]_vars

ReportActionsNext == CompareNext \/ ReanalysisNext

SpecReportActions == CompareInit /\ [][ReportActionsNext]_vars

(***************************************************************************)
(* The catch clauses: the error text a failed request puts into the banner *)
(* of its action.                                                          *)
(***************************************************************************)
\* error?.response?.data?.error
ServerError(e) == Get(Get(Get(e, "response"), "data"), "error")

GenericMessages ==
    [bulkUpload     |-> JStr("Yukleme sirasinda bir hata olustu. Lutfen tekrar deneyin."),
     archiveCompare |-> JStr("Karsilastirma sirasinda bir sorun olustu. Lutfen tekrar deneyin."),
     archiveAnalyze |-> JStr("Analiz sirasinda bir sorun olustu. Lutfen tekrar deneyin."),
     boardCompare   |-> JStr("Karsilastirma sirasinda bir sorun olustu. Lutfen tekrar deneyin."),
     boardAnalyze   |-> JStr("Analiz sirasinda bir sorun olustu. Lutfen tekrar deneyin."),
     homeUpload     |-> JStr("Secilen raporlar yuklenemedi. Lutfen tekrar deneyin."),
     homeAnalyze    |-> JStr("AI analizi sirasinda bir sorun olustu. Lutfen tekrar deneyin."),
     reset          |-> JStr("Veriler sifirlanirken bir hata olustu. Lutfen tekrar deneyin."),
     query          |-> JStr("Sorgu calistirilamadi. Lutfen tekrar deneyin.")]

\* error?.response?.data?.error || "<generic>"
ErrorOrGeneric(e, action) == Or(ServerError(e), GenericMessages[action])

\* error?.response?.data?.error || error?.message || "<generic>"
ErrorMessageOrGeneric(e, action) ==
    Or(Or(ServerError(e), Get(e, "message")), GenericMessages[action])

\* what the catch clause of each action shows; the home upload logs the error
\* and shows its fixed sentence
CaughtMessage(e, action) ==
    CASE action \in {"bulkUpload", "archiveCompare", "archiveAnalyze",
                     "boardCompare", "boardAnalyze"} -> ErrorMessageOrGeneric(e, action)
      [] action = "homeUpload" -> GenericMessages[action]
      [] action \in {"homeAnalyze", "reset", "query"} -> ErrorOrGeneric(e, action)

\* the bodies a failed response can carry, and the errors axios rejects with
ErrorBodies ==
    {JUndef, JStr("<html>"), EmptyObj, JObj("error" :> JStr("")),
     JObj("error" :> JStr("Gecersiz dosya"))}
ErrorResponses == {JUndef} \cup {JObj("data" :> d) : d \in ErrorBodies}
ErrorTexts == {JUndef, JStr("Network Error"), JStr("Request failed with status code 500")}
Errors == {JObj("response" :> r @@ "message" :> t) : r \in ErrorResponses, t \in ErrorTexts}

BannerInit ==
    /\ thrown \in Errors
    /\ failedAction = "none"
    /\ bannerMessage = JUndef
    /\ FileIdle /\ EntryIdle /\ AppIdle /\ PagesIdle /\ BoardIdle /\ ViewIdle /\ MoreIdle

Catch(action) ==
    /\ failedAction = "none"
    /\ failedAction' = action
    /\ bannerMessage' = CaughtMessage(thrown, action)
    /\ UNCHANGED <<thrown, fileVars, entryVars, appVars, listVars, pageVars, boardVars,
                   viewVars, moreVars>>

BulkUploadCatch == Catch("bulkUpload")
ArchiveCompareCatch == Catch("archiveCompare")
ArchiveAnalyzeCatch == Catch("archiveAnalyze")
BoardCompareCatch == Catch("boardCompare")
BoardAnalyzeCatch == Catch("boardAnalyze")
HomeUploadCatch == Catch("homeUpload")
HomeAnalyzeCatch == Catch("homeAnalyze")
ResetCatch == Catch("reset")
QueryCatch == Catch("query")

BannerNext ==
    \/ BulkUploadCatch \/ ArchiveCompareCatch \/ ArchiveAnalyzeCatch
    \/ BoardCompareCatch \/ BoardAnalyzeCatch
    \/ HomeUploadCatch \/ HomeAnalyzeCatch \/ ResetCatch \/ QueryCatch

SpecBanner == BannerInit /\ [][BannerNext]_vars

\* C13: when a request fails, the error text of the banner is the server's
\* `error` field if the server supplied one, and the action's generic Turkish
\* message otherwise, for upload, bulk upload, analyze, compare, reset and query.
C13_ServerErrorOrGeneric ==
    failedAction # "none" =>
        bannerMessage = IF Truthy(ServerError(thrown)) THEN ServerError(thrown)
                        ELSE GenericMessages[failedAction]

(***************************************************************************)
(* ComparisonDetailView: what rendering a comparison response gives, null, *)
(* the rows of the view, or the TypeError a read of undefined or null      *)
(* throws.                                                                 *)
(***************************************************************************)
\* the values of Object.entries(v)
EntryValues(v) ==
    CASE v.t = "object" -> {v.o[k] : k \in DOMAIN v.o}
      [] v.t = "array"  -> {v.a[i] : i \in 1..Len(v.a)}
      [] OTHER          -> {}

\* renderFieldComparison(label, fieldData): a row, or null
renderFieldComparison(fieldData) == IF Truthy(fieldData) THEN "row" ELSE "null"

\* the callback of Object.entries(rowData).map: data.identical, data.first,
\* data.second, and data.difference.toFixed(2) unless data.difference === null
AngleCell(data) ==
    IF Nullish(data) THEN "TypeError"
    ELSE IF Get(data, "difference") # JNull /\ ~IsNumber(Get(data, "difference"))
         THEN "TypeError"
         ELSE "row"

renderAngleComparison(page_2_comparison) ==
    LET lehnen_winkel == Get(page_2_comparison, "lehnen_winkel")
        rows == {Get(lehnen_winkel, row) : row \in {"vorher", "nachher"}}
        cells == UNION {EntryValues(rowData) : rowData \in {r \in rows : Truthy(r)}}
    IN  IF ~Truthy(lehnen_winkel) THEN "null"
        ELSE IF \E data \in cells : AngleCell(data) = "TypeError" THEN "TypeError"
        ELSE "section"

\* the rows of the table of one of the three plain sections
SectionRows(page_2_comparison, section, skipped) ==
    LET fields == Get(page_2_comparison, section)
    IN  IF ~Truthy(fields) \/ fields.t # "object" THEN 0
        ELSE Cardinality({k \in DOMAIN fields.o :
                 k \notin skipped /\ renderFieldComparison(fields.o[k]) = "row"})

\* an outcome without a view: "pending", "null" or "TypeError"
Unrendered(result) ==
    [result |-> result, simple_fields |-> 0, lehnen_winkel |-> "null", pruefling |-> 0,
     pruefergebnis |-> 0]

ComparisonDetailView(data) ==
    LET page_2_comparison == Get(data, "page_2_comparison")
    IN  IF ~Truthy(data) THEN Unrendered("null")
        ELSE IF ~Truthy(page_2_comparison) \/ Truthy(Get(page_2_comparison, "error"))
        THEN Unrendered("null")
        ELSE IF renderAngleComparison(page_2_comparison) = "TypeError"
        THEN Unrendered("TypeError")
        ELSE [result |-> "view",
              simple_fields |-> SectionRows(page_2_comparison, "simple_fields", {}),
              lehnen_winkel |-> renderAngleComparison(page_2_comparison),
              pruefling |-> SectionRows(page_2_comparison, "pruefling",
                                        {"hinten_montiert", "vorne_montiert"}),
              pruefergebnis |-> SectionRows(page_2_comparison, "pruefergebnis",
                                            {"dummypruefung"})]

\* an entry of a section with some of its four fields
EntryFields ==
    [first |-> JStr("A"), second |-> JStr("B"), identical |-> JBool(FALSE),
     difference |-> JNum(1)]
SectionEntries ==
    {JObj([k \in present |-> EntryFields[k]]) : present \in SUBSET DOMAIN EntryFields}

\* a page-2 comparison with some of its sections, each holding the entry
PageTwo(sections, e) ==
    JObj([k \in sections |->
            CASE k = "simple_fields" -> JObj("auftraggeber" :> e)
              [] k = "lehnen_winkel" -> JObj("vorher" :> JObj("hinten_links" :> e))
              [] k = "pruefling"     -> JObj("typ" :> e @@ "hinten_montiert" :> e)
              [] k = "pruefergebnis" -> JObj("ergebnis" :> e)])
SectionNames == {"simple_fields", "lehnen_winkel", "pruefling", "pruefergebnis"}
ComparisonResponses ==
    {JNull, EmptyObj, JObj("page_2_comparison" :> JNull),
     JObj("page_2_comparison" :> JObj("error" :> JStr("page 2 not found")))}
    \cup {JObj("page_2_comparison" :> PageTwo(sections, e)) :
             sections \in SUBSET SectionNames, e \in SectionEntries}

ViewInit ==
    /\ comparisonData \in ComparisonResponses
    /\ viewOutcome = [result |-> "pending"]
    /\ FileIdle /\ EntryIdle /\ AppIdle /\ PagesIdle /\ BoardIdle /\ BannerIdle /\ MoreIdle

Render ==
    /\ viewOutcome.result = "pending"
    /\ viewOutcome' = ComparisonDetailView(comparisonData)
    /\ UNCHANGED <<comparisonData, fileVars, entryVars, appVars, listVars, pageVars,
                   boardVars, bannerVars, moreVars>>

ViewNext == Render

SpecView == ViewInit /\ [][ViewNext]_vars

\* C14: rendering a comparison response never fails on missing or partial
\* data: ComparisonDetailView returns normally when page_2_comparison, any of
\* its sections (simple_fields, lehnen_winkel, pruefling, pruefergebnis) or
\* any field of a section entry (first, second, identical, difference) is absent.
C14_RenderTolerant == viewOutcome.result # "TypeError"

(***************************************************************************)
(* SpecHomeForm: the home upload form with its events spelled out: an      *)
(* event that arrives while the form is processing is an event too.        *)
(***************************************************************************)
\* a PDF and a file that is none
HomeFileLists == SeqsUpTo({FileC, TextFile}, MaxSelection)

FormEvent(kind, fileList) ==
    [kind |-> kind, files |-> fileList, processing |-> isAnalysisProcessing,
     n |-> 1 - homeEvent.n]

\* handleFileChange(event): event.target.files is fileList
handleFileChange(fileList) ==
    /\ route = "home" /\ Quiet
    /\ home' = IF isAnalysisProcessing THEN home ELSE FileSelection(home, fileList)
    /\ homeEvent' = FormEvent("fileChange", fileList)
    /\ UNCHANGED <<route, navigations, archive, procs, requests, serverReports, listVars,
                   appVars, fileVars, entryVars, boardVars, bannerVars, viewVars,
                   requestVars, dbVars, netVars>>

\* handleDrop(event) of UploadForm: event.dataTransfer.files is fileList
handleFormDrop(fileList) ==
    /\ route = "home" /\ Quiet
    /\ home' = IF isAnalysisProcessing \/ fileList = <<>> THEN home
               ELSE FileSelection(home, fileList)
    /\ homeEvent' = FormEvent("drop", fileList)
    /\ UNCHANGED <<route, navigations, archive, procs, requests, serverReports, listVars,
                   appVars, fileVars, entryVars, boardVars, bannerVars, viewVars,
                   requestVars, dbVars, netVars>>

\* handleClearSelection(event), the button being rendered while files are selected
handleFormClear ==
    /\ route = "home" /\ Quiet /\ home.selectedFiles # <<>>
    /\ home' = IF isAnalysisProcessing THEN home
               ELSE [home EXCEPT !.selectedFiles = <<>>, !.status = NoStatus]
    /\ homeEvent' = FormEvent("clear", <<>>)
    /\ UNCHANGED <<route, navigations, archive, procs, requests, serverReports, listVars,
                   appVars, fileVars, entryVars, boardVars, bannerVars, viewVars,
                   requestVars, dbVars, netVars>>

\* the form stays mounted: the events of the statement are those of one form
HomeFormNext ==
    \/ \E pid \in 1..Len(procs), ok \in BOOLEAN :
          AppFetchSettle(pid, ok)
    \/ \E fileList \in HomeFileLists : handleFileChange(fileList)
    \/ \E fileList \in HomeFileLists : handleFormDrop(fileList)
    \/ handleFormClear
    \/ handleUploadAndAnalyze
    \/ \E pid \in 1..Len(procs), ok \in BOOLEAN :
          HomeUploadSettle(pid, ok)
    \/ \E pid \in 1..Len(procs), ok \in BOOLEAN, payload \in AnalysisPayloads :
          HomeAnalyzeSettle(pid, ok, payload)
    \/ \E pid \in 1..Len(procs), ok \in BOOLEAN :
          HomeRefreshSettle(pid, ok)

SpecHomeForm == HomeInit /\ [][HomeFormNext]_vars

(***************************************************************************)
(* SpecArchiveLimit: the archive's file selection one file short of        *)
(* MAX_MULTI_UPLOAD_FILES, as a drop of that many PDF files leaves it.     *)
(***************************************************************************)
NearlyFull == [n \in 1..(MAX_MULTI_UPLOAD_FILES - 1) |-> NumberedFile(n)]

\* two new PDF files, one that is selected already, and a file that is no PDF
AddedFiles ==
    {NumberedFile(MAX_MULTI_UPLOAD_FILES), NumberedFile(MAX_MULTI_UPLOAD_FILES + 1),
     NumberedFile(1), TextFile}
AddedLists == SeqsUpTo(AddedFiles, MaxAdded)

ArchiveLimitInit ==
    /\ route = "archive" /\ navigations = 0
    /\ home = HomeState(0)
    /\ archive = [ArchiveState(1) EXCEPT !.selectedFiles = NearlyFull]
    \* the reports are loaded
    /\ reports = InitialReports /\ loading = FALSE /\ error = FALSE
    /\ isAnalysisProcessing = FALSE
    /\ procs = <<Returned("fetchReports")>>
    /\ requests = <<>>
    /\ serverReports = InitialReports
    /\ analysisEngine = JStr("chatgpt") /\ analysisHistory = <<>> /\ clock = 1
    /\ FileIdle /\ EntryIdle /\ ExtraIdle

\* the files are removed from the end of the list
ArchiveLimitNext ==
    \/ \E fileList \in AddedLists : handleFileInputChange(fileList)
    \/ \E fileList \in AddedLists : handleDrop(fileList)
    \/ handleRemoveFile(Len(archive.selectedFiles))
    \/ handleClearSelectedFiles

SpecArchiveLimit == ArchiveLimitInit /\ [][ArchiveLimitNext]_vars

(***************************************************************************)
(* HomeSection: the reset card, and NaturalLanguageQuery: the query form.  *)
(***************************************************************************)
\* the state of a HomeSection instance: useState(null), useState(false)
SectionState(inst) == [inst |-> inst, isResetting |-> FALSE, resetStatus |-> NoStatus]

\* the state of a NaturalLanguageQuery instance
QueryState(inst) ==
    [inst |-> inst, isProcessing |-> FALSE, error |-> FALSE, queryResult |-> FALSE]

\* setState of an instance; nothing happens once the instance is unmounted
SectionWith(inst, changes) ==
    IF route = "home" /\ homeSection.inst = inst THEN changes @@ homeSection ELSE homeSection
QueryWith(inst, changes) ==
    IF route = "query" /\ queryPage.inst = inst THEN changes @@ queryPage ELSE queryPage

\* the router renders another route: the page is unmounted, the new one mounted
Visit(to) ==
    /\ Quiet /\ to # route /\ navigations < MaxNavigations
    /\ route' = to
    /\ navigations' = navigations + 1
    /\ home' = HomeState(IF to = "home" THEN navigations + 2 ELSE 0)
    /\ homeSection' = SectionState(IF to = "home" THEN navigations + 2 ELSE 0)
    /\ archive' = ArchiveState(IF to = "archive" THEN navigations + 2 ELSE 0)
    /\ queryPage' = QueryState(IF to = "query" THEN navigations + 2 ELSE 0)
    /\ board' = IF to = "r80"
                THEN BoardState(navigations + 2, sessionStorage, analysisEngine)
                ELSE NoBoard
    /\ UNCHANGED <<procs, requests, serverReports, listVars, appVars, fileVars, entryVars,
                   sessionStorage, bannerVars, viewVars, requestVars, dbVars, lateVars,
                   fetches>>

\* the application after its first render on the page `start`
SiteInit(start) ==
    /\ route = start
    /\ navigations = 0
    /\ home = HomeState(IF route = "home" THEN 1 ELSE 0)
    /\ homeSection = SectionState(IF route = "home" THEN 1 ELSE 0)
    /\ archive = ArchiveState(IF route = "archive" THEN 1 ELSE 0)
    /\ queryPage = QueryState(IF route = "query" THEN 1 ELSE 0)
    \* App's mount effect has called fetchReports
    /\ reports = {} /\ loading = TRUE /\ error = FALSE
    /\ isAnalysisProcessing = FALSE
    /\ procs = <<Activation("fetchReports", 0, <<>>, <<>>, "get")>>
    /\ requests = <<Request("getAllReports", "app", 1, <<>>, <<>>)>>
    /\ serverReports = InitialReports
    /\ analysisEngine = JStr("chatgpt") /\ analysisHistory = <<>> /\ clock = 1
    /\ sessionStorage = {}
    /\ board = IF route = "r80" THEN BoardState(1, sessionStorage, analysisEngine)
               ELSE NoBoard
    /\ fetches = <<>>
    /\ FileIdle /\ EntryIdle /\ BannerIdle /\ ViewIdle
    /\ RequestIdle /\ DbIdle /\ LateIdle

notSection ==
    <<route, navigations, home, archive, queryPage, fetches, isAnalysisProcessing,
      analysisEngine, fileVars, entryVars, boardVars, bannerVars, viewVars, requestVars,
      dbVars, lateVars>>

\* the reset button is disabled while a reset is running
handleResetAll ==
    /\ route = "home" /\ Quiet /\ CanActivate
    /\ ~homeSection.isResetting
    /\ homeSection' = [homeSection EXCEPT !.isResetting = TRUE, !.resetStatus = NoStatus]
    /\ procs' = Append(procs,
           Activation("resetAll", homeSection.inst, <<>>, <<>>, "reset"))
    /\ requests' = Append(requests,
           Request("resetAllData", "resetAll", Len(procs) + 1, <<>>, <<>>))
    /\ UNCHANGED <<serverReports, reports, loading, error, analysisHistory, clock, notSection>>

\* a reset that clears the history whatever the request gave
HistoryAfterReset_always(prev, ok) == <<>>

\* onClearAnalyses is called in the try block, after resetAllData() has resolved
HistoryAfterReset(prev, ok) == IF ok THEN <<>> ELSE prev

\* a reset whose flag stays set when the request has failed
ResettingAfter_failure(ok) == ~ok

\* finally { setIsResetting(false) }, after the try block or the catch clause
ResettingAfter(ok) == FALSE

\* resetAllData settles: try { setResetStatus(success); onClearAnalyses();
\* await onRefresh() } catch { setResetStatus(error) } finally { setIsResetting(false) }
ResetSettle(pid, ok) ==
    /\ Quiet /\ At(pid, "resetAll", "reset")
    /\ LET p == procs[pid]
       IN  /\ analysisHistory' = HistoryAfterReset(analysisHistory, ok)
           /\ IF ok
              THEN /\ serverReports' = {}
                   /\ homeSection' = SectionWith(p.inst,
                          [resetStatus |-> Status("success", "reset", 0, 0)])
                   \* onRefresh is App.fetchReports: setLoading(true), getAllReports()
                   /\ loading' = TRUE
                   /\ requests' = Append(Settle(Pending(pid), ok),
                          Request("getAllReports", "resetAll", pid, <<>>, <<>>))
                   /\ procs' = [procs EXCEPT ![pid].pc = "refresh"]
              ELSE /\ homeSection' = SectionWith(p.inst,
                          [resetStatus |-> Status("error", "resetFailed", 0, 0),
                           isResetting |-> ResettingAfter(ok)])
                   /\ requests' = Forget(requests, pid)
                   /\ procs' = [procs EXCEPT ![pid] = Returned("resetAll")]
                   /\ UNCHANGED <<serverReports, loading>>
    /\ UNCHANGED <<reports, error, clock, notSection>>

\* fetchReports settles (it never rejects); finally { setIsResetting(false) }
ResetRefreshSettle(pid, ok) ==
    /\ Quiet /\ At(pid, "resetAll", "refresh")
    /\ FetchReportsSettled(ok)
    /\ homeSection' = SectionWith(procs[pid].inst, [isResetting |-> ResettingAfter(TRUE)])
    /\ requests' = Forget(requests, pid)
    /\ procs' = [procs EXCEPT ![pid] = Returned("resetAll")]
    /\ UNCHANGED <<serverReports, analysisHistory, clock, notSection>>

\* what is typed into the query field
QueryTexts == {JStr(" "), JStr("q")}

notQuery ==
    <<route, navigations, home, homeSection, archive, fetches, serverReports, listVars,
      appVars, fileVars, entryVars, boardVars, bannerVars, viewVars, requestVars, dbVars,
      lateVars>>

\* the form is submitted; the submit button is disabled while a query is running
handleSubmit(query) ==
    /\ route = "query" /\ Quiet /\ CanActivate
    /\ ~queryPage.isProcessing
    /\ IF ~Truthy(Trim(query))
       THEN UNCHANGED <<queryPage, procs, requests>>
       ELSE /\ queryPage' = [queryPage EXCEPT !.isProcessing = TRUE, !.error = FALSE,
                                              !.queryResult = FALSE]
            /\ procs' = Append(procs,
                   Activation("query", queryPage.inst, <<>>, <<>>, "query"))
            /\ requests' = Append(requests,
                   Request("runNaturalLanguageQuery", "query", Len(procs) + 1, <<>>, <<>>))
    /\ UNCHANGED notQuery

\* runNaturalLanguageQuery settles: try / catch / finally { setIsProcessing(false) }
QuerySettle(pid, ok) ==
    /\ Quiet /\ At(pid, "query", "query")
    /\ queryPage' = QueryWith(procs[pid].inst,
           IF ok THEN [queryResult |-> TRUE, isProcessing |-> FALSE]
           ELSE [error |-> TRUE, queryResult |-> FALSE, isProcessing |-> FALSE])
    /\ requests' = Forget(requests, pid)
    /\ procs' = [procs EXCEPT ![pid] = Returned("query")]
    /\ UNCHANGED notQuery

(***************************************************************************)
(* SpecReset: the home page with its upload form and its reset card.       *)
(***************************************************************************)
ResetInit == SiteInit("home")

ResetSteps ==
    \/ handleResetAll
    \/ \E pid \in 1..Len(procs), ok \in BOOLEAN : ResetSettle(pid, ok)
    \/ \E pid \in 1..Len(procs), ok \in BOOLEAN : ResetRefreshSettle(pid, ok)

HomeUploadSteps ==
    \/ \E fileList \in FileLists : handleFileSelection(fileList)
    \/ handleUploadAndAnalyze
    \/ \E pid \in 1..Len(procs), ok \in BOOLEAN :
          HomeUploadSettle(pid, ok)
    \/ \E pid \in 1..Len(procs), ok \in BOOLEAN, payload \in AnalysisPayloads :
          HomeAnalyzeSettle(pid, ok, payload)
    \/ \E pid \in 1..Len(procs), ok \in BOOLEAN :
          HomeRefreshSettle(pid, ok)

ResetNext ==
    \/ \E to \in {"home", "other"} : Visit(to)
    \/ \E pid \in 1..Len(procs), ok \in BOOLEAN : AppFetchSettle(pid, ok)
    \/ HomeUploadSteps
    \/ ResetSteps

SpecReset == ResetInit /\ [][ResetNext]_vars

(***************************************************************************)
(* SpecFlags: every handler that holds a processing flag, on the three     *)
(* pages that have one.                                                    *)
(***************************************************************************)
\* the application on one of the three pages, the report list loaded
\* analysisHistory after n analyses of the board have completed, at the
\* times 1 .. n
RECURSIVE CompletedAnalyses(_)
CompletedAnalyses(n) ==
    IF n = 0 THEN <<>>
    ELSE HistoryAfter(CompletedAnalyses(n - 1),
             handleAnalysisComplete(normalizeAnalyzeFilesResponse(SampleResponse),
                 JObj("source" :> JStr(BoardTitle) @@ "engineKey" :> JStr("chatgpt")),
                 JStr("chatgpt"), n))

\* the sectionAnalyses of the board these n analyses were started on
RECURSIVE CompletedOnBoard(_)
CompletedOnBoard(n) ==
    IF n = 0 THEN <<>>
    ELSE SectionAnalysesAfter(CompletedOnBoard(n - 1), CompletedAnalyses(n)[1])

\* the application on the page `start`, the report list loaded, after n
\* analyses of the board (if it is the page) have completed and returned
LoadedAfter(start, n) ==
    /\ route = start
    /\ navigations = 0
    /\ home = HomeState(IF route = "home" THEN 1 ELSE 0)
    /\ homeSection = SectionState(IF route = "home" THEN 1 ELSE 0)
    /\ archive = ArchiveState(IF route = "archive" THEN 1 ELSE 0)
    /\ queryPage = QueryState(IF route = "query" THEN 1 ELSE 0)
    /\ reports = InitialReports /\ loading = FALSE /\ error = FALSE
    /\ isAnalysisProcessing = FALSE
    /\ procs = <<Returned("fetchReports")>>
    /\ requests = <<>>
    /\ serverReports = InitialReports
    /\ analysisEngine = JStr("chatgpt")
    /\ analysisHistory = CompletedAnalyses(n) /\ clock = n + 1
    /\ sessionStorage = {}
    /\ board = IF route = "r80"
               THEN [BoardState(1, sessionStorage, analysisEngine) EXCEPT
                        !.sectionAnalyses = CompletedOnBoard(n)]
               ELSE NoBoard
    /\ fetches = <<>>
    /\ FileIdle /\ EntryIdle /\ BannerIdle /\ ViewIdle
    /\ RequestIdle /\ DbIdle /\ LateIdle

Loaded(start) == LoadedAfter(start, 0)

FlagPages == {"home", "archive", "query"}

\* a route without a processing flag, reached from `page`; the browser's back
\* button leads back to `page`
Elsewhere(page) == "from " \o page

FlagsInit == \E start \in FlagPages : Loaded(start)

FlagsNext ==
    \/ \E page \in FlagPages :
          \/ route = page /\ Visit(Elsewhere(page))
          \/ route = Elsewhere(page) /\ Visit(page)
    \/ HomeUploadSteps
    \/ ResetSteps
    \/ \E fileList \in FileLists : handleDrop(fileList)
    \/ handleBulkUpload
    \/ \E pid \in 1..Len(procs), ok \in BOOLEAN : BulkUploadSettle(pid, ok)
    \/ \E pid \in 1..Len(procs) : BulkAfterLoop(pid)
    \/ \E pid \in 1..Len(procs), ok \in BOOLEAN : BulkRefreshSettle(pid, ok)
    \/ \E id \in {r.id : r \in reports} : toggleArchiveSelection(id)
    \/ handleCompareSelected
    \/ \E pid \in 1..Len(procs), ok \in BOOLEAN : CompareSettle(pid, ok)
    \/ handleAnalyzeSelected
    \/ \E pid \in 1..Len(procs), ok \in BOOLEAN, payload \in AnalysisPayloads :
          AnalyzeSelectedSettle(pid, ok, payload)
    \/ \E query \in QueryTexts : handleSubmit(query)
    \/ \E pid \in 1..Len(procs), ok \in BOOLEAN : QuerySettle(pid, ok)

SpecFlags == FlagsInit /\ [][FlagsNext]_vars

(***************************************************************************)
(* SpecHistory: the analysis history, which the analyses of the board      *)
(* extend and the reset of the home page clears.  The analyses of the home *)
(* page and of the archive reach the same App.handleAnalysisComplete.      *)
(***************************************************************************)
\* const recentAnalyses = analysisHistory.slice(0, 2)
recentAnalyses == Slice(analysisHistory, 0, 2)
\* const archivedAnalyses = analysisHistory.slice(2)
archivedAnalyses == Slice(analysisHistory, 2, Len(analysisHistory))

HistoryInit == \E n \in 0..MaxEarlier : LoadedAfter("r80", n)

HistoryNext ==
    \/ \E to \in {"r80", "home"} : Visit(to)
    \/ \E id \in {r.id : r \in reports} : toggleSelection(id)
    \/ handleAnalyze
    \/ \E pid \in 1..Len(procs), i \in 1..Len(requests), ok \in BOOLEAN :
          BoardDownloadSettle(pid, i, ok)
    \/ \E pid \in 1..Len(procs), ok \in BOOLEAN, payload \in AnalysisPayloads :
          BoardAnalyzeSettle(pid, ok, payload)
    \/ ResetSteps

SpecHistory == HistoryInit /\ [][HistoryNext]_vars

(***************************************************************************)
(* SpecFetch: App.fetchReports with the response of every request spelled  *)
(* out.  The first call is that of App's mount effect, the others are the  *)
(* refreshes the pages ask for (onRefresh, onUploadSuccess,                *)
(* onReportDeleted).  The server answers a request with the reports it     *)
(* holds at that moment, and the answers arrive in any order.              *)
(***************************************************************************)
\* a call of fetchReports: where its request is, and what the server answered
Fetch(state, ok, data) == [state |-> state, ok |-> ok, data |-> data]

FetchInit ==
    /\ fetches = <<Fetch("sent", TRUE, {})>>
    /\ reports = {} /\ loading = TRUE /\ error = FALSE /\ isAnalysisProcessing = FALSE
    /\ route = "idle" /\ navigations = 0 /\ home = <<>> /\ archive = <<>>
    /\ procs = <<>> /\ requests = <<>>
    /\ serverReports = InitialReports
    /\ homeSection = <<>> /\ queryPage = <<>>
    /\ FileIdle /\ EntryIdle /\ AppIdle /\ BoardIdle /\ BannerIdle /\ ViewIdle
    /\ RequestIdle /\ DbIdle /\ LateIdle

notFetch ==
    <<isAnalysisProcessing, route, navigations, home, archive, procs, requests, fileVars,
      entryVars, appVars, boardVars, bannerVars, viewVars, requestVars, dbVars, lateVars,
      homeSection, queryPage>>

\* fetchReports up to its await: setLoading(true), getAllReports()
fetchReports ==
    /\ Len(fetches) < MaxFetches
    /\ loading' = TRUE
    /\ fetches' = Append(fetches, Fetch("sent", TRUE, {}))
    /\ UNCHANGED <<reports, error, serverReports, notFetch>>

\* GET /reports is answered with the reports stored at that moment, or fails
GetAllReportsAnswered(i, ok) ==
    /\ fetches[i].state = "sent"
    /\ fetches' = [fetches EXCEPT
           ![i] = Fetch("answered", ok, IF ok THEN serverReports ELSE {})]
    /\ UNCHANGED <<reports, loading, error, serverReports, notFetch>>

\* the answer of call i arrives: try { setReports(data); setError(null) }
\* catch { setError(..) } finally { setLoading(false) }
FetchReportsResumes(i) ==
    /\ fetches[i].state = "answered"
    /\ reports' = IF fetches[i].ok THEN fetches[i].data ELSE reports
    /\ error' = ~fetches[i].ok
    /\ loading' = FALSE
    /\ fetches' = [fetches EXCEPT ![i].state = "settled"]
    /\ UNCHANGED <<serverReports, notFetch>>

\* what the pages refresh for: an upload is stored, or all data is reset
ServerStores(file) ==
    /\ Cardinality(serverReports) < MaxStored
    /\ serverReports' = StoreReport(serverReports, file.name)
    /\ UNCHANGED <<fetches, reports, loading, error, notFetch>>

ServerResets ==
    /\ serverReports # {}
    /\ serverReports' = {}
    /\ UNCHANGED <<fetches, reports, loading, error, notFetch>>

FetchNext ==
    \/ fetchReports
    \/ \E i \in 1..Len(fetches), ok \in BOOLEAN : GetAllReportsAnswered(i, ok)
    \/ \E i \in 1..Len(fetches) : FetchReportsResumes(i)
    \/ ServerStores(FileC)
    \/ ServerResets

SpecFetch == FetchInit /\ [][FetchNext]_vars

(***************************************************************************)
(* SpecRequest: the multipart bodies of api.js.                            *)
(***************************************************************************)
\* a Blob: a file object without a name
Blob == [type |-> "application/pdf"]

HasName(file) == "name" \in DOMAIN file /\ file.name # <<>>

\* `report-${index + 1}.pdf`, index counted from 0
ReportName(index) == <<"r", "e", "p", "o", "r", "t", "-", ToString(index + 1)>> \o PdfSuffix

\* FormData.append(name, value): a string value; other values are converted to strings
StringEntry(name, value) ==
    [name |-> name,
     value |-> IF value.t = "string" THEN value ELSE JStr(value.t),
     filename |-> <<>>]

\* FormData.append(name, blob): the filename is the File's name, "blob" for a Blob
FileEntry(name, file) ==
    [name |-> name, value |-> file,
     filename |-> IF "name" \in DOMAIN file THEN file.name ELSE <<"b", "l", "o", "b">>]

\* FormData.append(name, blob, filename)
NamedFileEntry(name, file, filename) == [name |-> name, value |-> file, filename |-> filename]

\* the FormData uploadReport(file, engine) posts to /upload
uploadReport(file, engine) ==
    <<FileEntry("file", file)>>
        \o (IF Truthy(engine) THEN <<StringEntry("engine", engine)>> ELSE <<>>)

\* an analyzeReportsWithAI that appends the first file only
analyzeReportsWithAI_firstOnly(files, engine) ==
    <<NamedFileEntry("files", files[1],
                     IF HasName(files[1]) THEN files[1].name ELSE ReportName(0))>>
        \o <<StringEntry("engine", engine)>>

\* the FormData analyzeReportsWithAI(files, engine) posts to /analyze-files
analyzeReportsWithAI(files, engine) ==
    [index \in 1..Len(files) |->
        LET file == files[index]
            fileName == IF HasName(file) THEN file.name ELSE ReportName(index - 1)
        IN  NamedFileEntry("files", file, fileName)]
        \o <<StringEntry("engine", engine)>>

RequestFiles == {FileA, FileB, FileC, Blob}
RequestEngines == {JUndef, JStr(""), JStr("chatgpt"), JStr("claude")}

RequestInit ==
    /\ apiCall \in
          {[fn |-> "uploadReport", files |-> <<f>>, engine |-> e, posted |-> FALSE] :
              f \in RequestFiles, e \in RequestEngines}
          \cup
          {[fn |-> "analyzeReportsWithAI", files |-> fs, engine |-> e, posted |-> FALSE] :
              fs \in SeqsUpTo(RequestFiles, MaxRequestFiles) \ {<<>>}, e \in RequestEngines}
    /\ formData = <<>>
    /\ DbIdle /\ LateIdle /\ NetIdle
    /\ FileIdle /\ EntryIdle /\ AppIdle /\ PagesIdle /\ BoardIdle /\ BannerIdle /\ ViewIdle

notRequest ==
    <<fileVars, entryVars, appVars, listVars, pageVars, boardVars, bannerVars, viewVars, dbVars,
      lateVars, netVars>>

\* client.post("/upload", formData, ...)
PostUpload ==
    /\ apiCall.fn = "uploadReport" /\ ~apiCall.posted
    /\ formData' = uploadReport(apiCall.files[1], apiCall.engine)
    /\ apiCall' = [apiCall EXCEPT !.posted = TRUE]
    /\ UNCHANGED notRequest

\* client.post("/analyze-files", formData)
PostAnalyzeFiles ==
    /\ apiCall.fn = "analyzeReportsWithAI" /\ ~apiCall.posted
    /\ formData' = analyzeReportsWithAI(apiCall.files, apiCall.engine)
    /\ apiCall' = [apiCall EXCEPT !.posted = TRUE]
    /\ UNCHANGED notRequest

RequestNext == PostUpload \/ PostAnalyzeFiles

SpecRequest == RequestInit /\ [][RequestNext]_vars

\* the entries of a FormData under one field name, in order
EntriesOf(data, field) == SelectSeq(data, LAMBDA e : e.name = field)

\* the files a FormData carries under one field name, in order
FilesOf(data, field) ==
    [i \in 1..Len(EntriesOf(data, field)) |-> EntriesOf(data, field)[i].value]

\* the body of a posted call: the files under the given field and the engine
SendsFilesUnder(field) ==
    /\ (apiCall.posted /\ apiCall.fn = "analyzeReportsWithAI") =>
           /\ FilesOf(formData, field) = apiCall.files
           /\ Len(EntriesOf(formData, "engine")) = 1
           /\ Len(formData) = Len(apiCall.files) + 1
    /\ (apiCall.posted /\ apiCall.fn = "uploadReport") =>
           /\ FilesOf(formData, "file") = apiCall.files
           /\ Len(EntriesOf(formData, "engine")) = (IF Truthy(apiCall.engine) THEN 1 ELSE 0)
           /\ Truthy(apiCall.engine) =>
                  EntriesOf(formData, "engine")[1].value = apiCall.engine
           /\ Len(formData) = 1 + Len(EntriesOf(formData, "engine"))

\* C19: analyzeReportsWithAI sends every file of the request under the
\* multipart field `files[]` together with one `engine` field, and
\* uploadReport sends exactly one file under field `file` and an `engine`
\* field only when an engine is given.
C19_MultipartFields == SendsFilesUnder("files[]")

\* C19, amended: analyzeReportsWithAI sends every file of the request, in
\* order, under the multipart field `files` together with one `engine`
\* field, and uploadReport sends exactly one file under field `file` and an
\* `engine` field only when an engine is given.
C19_MultipartFieldsFiles == SendsFilesUnder("files")

\* an analysis request of two files was posted
C19_Witness ==
    /\ apiCall.posted /\ apiCall.fn = "analyzeReportsWithAI"
    /\ Len(apiCall.files) = 2
    /\ Len(formData) = 3

(***************************************************************************)
(* SpecDatabase: the tables of schema.sql under uploads, deletes, resets.  *)
(***************************************************************************)
\* id INTEGER PRIMARY KEY AUTOINCREMENT: one more than the largest id handed out
NextId(sequence, tbl) == sequence[tbl] + 1

\* a foreign key that leaves the rows of a deleted report in place
OnDeleteCascade_noAction(rows, report_id) == rows

\* FOREIGN KEY (report_id) REFERENCES reports(id) ON DELETE CASCADE
OnDeleteCascade(rows, report_id) == {r \in rows : r.report_id # report_id}

RECURSIVE CascadeAll(_, _)
\* the cascade of every deleted report
CascadeAll(rows, ids) ==
    IF ids = {} THEN rows
    ELSE LET id == CHOOSE x \in ids : TRUE
         IN  CascadeAll(OnDeleteCascade(rows, id), ids \ {id})

DatabaseInit ==
    /\ reportsTable = {} /\ test_results = {}
    /\ sqlite_sequence = [reports |-> 0, test_results |-> 0]
    /\ RequestIdle /\ LateIdle /\ NetIdle
    /\ FileIdle /\ EntryIdle /\ AppIdle /\ PagesIdle /\ BoardIdle /\ BannerIdle /\ ViewIdle

notDatabase ==
    <<fileVars, entryVars, appVars, listVars, pageVars, boardVars, bannerVars, viewVars,
      requestVars, lateVars, netVars>>

\* POST /upload: a report row and the rows of its test results are created
DbUpload ==
    /\ sqlite_sequence.reports < MaxUploads
    /\ \E n \in 0..MaxResults :
          LET id == NextId(sqlite_sequence, "reports")
              first == sqlite_sequence.test_results
          IN  /\ reportsTable' = reportsTable \cup {[id |-> id]}
              /\ test_results' =
                     test_results \cup {[id |-> first + k, report_id |-> id] : k \in 1..n}
              /\ sqlite_sequence' = [reports |-> id, test_results |-> first + n]
    /\ UNCHANGED notDatabase

\* DELETE /reports/:id
DbDeleteReport ==
    /\ \E row \in reportsTable :
          /\ reportsTable' = reportsTable \ {row}
          /\ test_results' = OnDeleteCascade(test_results, row.id)
    /\ UNCHANGED <<sqlite_sequence, notDatabase>>

\* POST /reset: every report is deleted
DbReset ==
    /\ reportsTable # {}
    /\ reportsTable' = {}
    /\ test_results' = CascadeAll(test_results, {row.id : row \in reportsTable})
    /\ UNCHANGED <<sqlite_sequence, notDatabase>>

DatabaseNext == DbUpload \/ DbDeleteReport \/ DbReset

SpecDatabase == DatabaseInit /\ [][DatabaseNext]_vars

\* C18: test_results rows are cascade-deleted with their parent: after any
\* sequence of uploads, per-report deletes and resets every test_results
\* row references a report that still exists.
C18_NoOrphanRows ==
    \A r \in test_results : \E row \in reportsTable : row.id = r.report_id

\* a report that had test results was deleted while another one remains
C18_Witness ==
    /\ test_results # {}
    /\ \E id \in 1..sqlite_sequence.reports : \A row \in reportsTable : row.id # id
    /\ Cardinality(test_results) < sqlite_sequence.test_results

(***************************************************************************)
(* Properties of the pages.                                                *)
(***************************************************************************)
PendingRequests(log) == {log[i] : i \in {j \in 1..Len(log) : log[j].status = "pending"}}

\* the requests sent in this step
SentNow == PendingRequests(requests') \ PendingRequests(requests)

\* the activations started in this step
StartedNow == {pid \in 1..Len(procs') : pid > Len(procs)}

\* the requests by which an action submits its work (not the list refresh after it)
Submitting(log, origin) ==
    {r \in PendingRequests(log) : r.origin = origin /\ r.kind # "getAllReports"}

\* C2: while a request started by an action (home upload-and-analyze,
\* archive bulk upload, archive analyze, archive compare) is still in flight,
\* a further activation of the same action sends no new network request.
C2_NoDuplicateSubmission ==
    [][\A pid \in StartedNow :
          Submitting(requests, procs'[pid].kind) # {}
              => ~\E r \in SentNow : r.pid = pid]_vars

\* the running bulk uploads, and the upload requests of one, in the order sent
Batches == {pid \in 1..Len(procs) : procs[pid].kind = "bulkUpload" /\ procs[pid].pc # "done"}
UploadsOf(pid) == SelectSeq(requests, LAMBDA r : r.pid = pid /\ r.kind = "upload")
NamesOf(files) == [i \in 1..Len(files) |-> files[i].name]
Settled(log) == SelectSeq(log, LAMBDA r : r.status # "pending")
ShowsBatch(pid) == route = "archive" /\ archive.inst = procs[pid].inst

\* the uploads of a batch so far are its first files in list order, and only
\* the last of them can be in flight
SequentialSoFar(pid) ==
    LET uploads == UploadsOf(pid)
        k == Len(uploads)
    IN  /\ k \in 1..Len(procs[pid].files)
        /\ [i \in 1..k |-> uploads[i].file] = SubSeq(NamesOf(procs[pid].files), 1, k)
        /\ \A i \in 1..(k - 1) : uploads[i].status # "pending"
        /\ Cardinality({i \in 1..k : uploads[i].status = "pending"}) <= 1

\* C3: handleBulkUpload sends the files strictly one after the other in list
\* order: the request for the next file is sent only after the request for
\* the file before it has settled, so at most one upload request of the batch
\* is in flight, and uploadProgress.processed grows by exactly one with each
\* file that settles (it is the number of files settled so far).
C3_SequentialBulkUpload ==
    /\ [](\A pid \in Batches : SequentialSoFar(pid))
    /\ [](\A pid \in Batches :
            (ShowsBatch(pid) /\ procs[pid].pc \in {"upload", "afterLoop"}) =>
                archive.uploadProgress =
                    [processed |-> Len(Settled(UploadsOf(pid))),
                     total |-> Len(procs[pid].files)])
    /\ [][\A pid \in Batches :
            (ShowsBatch(pid) /\ procs[pid].pc = "upload"
                /\ Len(Settled(UploadsOf(pid)')) = Len(Settled(UploadsOf(pid))) + 1) =>
                archive'.uploadProgress.processed = archive.uploadProgress.processed + 1]_vars

\* the second file of a batch is in flight, the first has failed and is counted
C3_Witness ==
    \E pid \in Batches :
        /\ ShowsBatch(pid) /\ procs[pid].pc = "upload" /\ procs[pid].index = 2
        /\ archive.uploadProgress = [processed |-> 1, total |-> 2]
        /\ UploadsOf(pid)[1].status = "failed"
        /\ UploadsOf(pid)[2].status = "pending"

BatchEnded(pid) == procs[pid].pc \in {"afterLoop", "refresh"}

\* C4: in a bulk upload of n files a failed upload does not end the batch and
\* nothing is sent again: when the batch ends every file has been sent
\* exactly once, successCount + failureCount = n, and successCount is the
\* number of uploads that succeeded.
C4_EveryFileOnce ==
    \A pid \in Batches :
        LET p == procs[pid]
            uploads == UploadsOf(pid)
        IN  /\ p.successCount + p.failureCount = Len(Settled(uploads))
            /\ p.successCount = Len(SelectSeq(uploads, LAMBDA r : r.status = "ok"))
            /\ BatchEnded(pid) =>
                   /\ [i \in 1..Len(uploads) |-> uploads[i].file] = NamesOf(p.files)
                   /\ Settled(uploads) = uploads
                   /\ p.successCount + p.failureCount = Len(p.files)

\* a batch of two files has ended with the first upload failed, the second not
C4_Witness ==
    \E pid \in Batches :
        /\ BatchEnded(pid) /\ Len(procs[pid].files) = 2
        /\ UploadsOf(pid)[1].status = "failed" /\ UploadsOf(pid)[2].status = "ok"
        /\ procs[pid].successCount = 1 /\ procs[pid].failureCount = 1

\* C10: no upload request is sent, from the home upload form or from the
\* archive bulk upload, for a file whose normalised filename is that of a
\* report in the client's reports list.
C10_NoDuplicateUpload ==
    [][\A r \in SentNow :
          r.kind = "upload" =>
              normaliseFilenameForComparison(r.file) \notin
                  {normaliseFilenameForComparison(rep.filename) : rep \in reports}]_vars

(***************************************************************************)
(* Properties of the board.                                                *)
(***************************************************************************)
InFlight(pid) ==
    {i \in 1..Len(requests) : requests[i].pid = pid /\ requests[i].status = "pending"}

\* C11: one activation of a user action (upload and analyze, bulk upload,
\* archive analyze, board analyze with one or two selected reports) never has
\* more than one of its own requests in flight: each request is started only
\* after the one before it has settled.
C11_OneRequestInFlight ==
    \A pid \in 1..Len(procs) : Cardinality(InFlight(pid)) <= 1

\* the analyses of the board that are running
Analyses ==
    {pid \in 1..Len(procs) : procs[pid].kind = "boardAnalyze" /\ procs[pid].pc # "done"}

\* the page is reloaded in this step
ReloadsNow == navigations' # navigations /\ route' = route

\* handleAnalyze starts analysis pid in this step
StartsNow(pid) == pid \in StartedNow /\ procs'[pid].kind = "boardAnalyze" /\ procs'[pid].pc # "done"

\* analysis pid runs to its end in this step
FinishesNow(pid) == pid \in Analyses /\ ~ReloadsNow /\ procs'[pid].pc = "done"

\* a board instance is mounted in this step
MountsNow == board'.inst # board.inst /\ board'.inst # 0

\* C12: the processing state of the board is kept as a session flag only: the
\* sessionStorage entry of the board's storage key is set when handleAnalyze
\* starts an analysis, is removed when that analysis finishes, whether it
\* succeeded or failed and whether the board is still mounted or not, is
\* changed by nothing else, and a board mounted while the entry is present
\* starts with isProcessing = true.
C12_SessionFlag ==
    /\ [][\A pid \in 1..Len(procs') : StartsNow(pid) => procs'[pid].key \in sessionStorage']_vars
    /\ [][\A pid \in 1..Len(procs) : FinishesNow(pid) => procs[pid].key \notin sessionStorage']_vars
    /\ [][sessionStorage' # sessionStorage =>
            \/ \E pid \in 1..Len(procs') : StartsNow(pid)
            \/ \E pid \in 1..Len(procs) : FinishesNow(pid)]_vars
    /\ [][(MountsNow /\ storageKey(BoardTitle, analysisEngine') \in sessionStorage')
              => board'.isProcessing]_vars

\* a board mounted while the analysis an earlier instance started is running
C12_Witness ==
    \E pid \in Analyses :
        /\ route = "r80" /\ board.inst > procs[pid].inst
        /\ procs[pid].key = storageKey(BoardTitle, analysisEngine)
        /\ procs[pid].key \in sessionStorage
        /\ board.isProcessing

\* C20: a mounted board shows isProcessing = true only while an analysis that
\* handleAnalyze started for the board's storage key is still running; so after
\* any analyses, route changes and page reloads, once no analysis is running
\* isProcessing is false and a new analysis can be started.
C20_ProcessingOnlyWhileRunning ==
    (route = "r80" /\ board.isProcessing) =>
        \E pid \in Analyses : procs[pid].key = storageKey(BoardTitle, analysisEngine)

(***************************************************************************)
(* Properties of the comparisons.                                          *)
(***************************************************************************)
\* the selection of the mounted page
Selection ==
    IF route = "archive" THEN archive.selectedArchiveIds ELSE board.selectedIds

\* the warning the mounted page shows, "" if none
CompareWarning ==
    IF route = "archive"
    THEN IF archive.archiveActionFeedback.type = "warning"
         THEN archive.archiveActionFeedback.message ELSE ""
    ELSE IF board.actionMessage \in {"atLeastTwo", "atMostTwo"}
         THEN board.actionMessage ELSE ""

\* the compare handler of the mounted page runs in this step without starting
\* an activation: the feedback of the page changes, nothing else does
ComparesInVain ==
    /\ procs' = procs /\ route' = route /\ Selection' = Selection
    /\ \/ route = "archive" /\ archive'.archiveActionFeedback # archive.archiveActionFeedback
       \/ route = "r80" /\ board'.actionMessage # board.actionMessage

\* C15: a comparison request is sent only with exactly two report ids: in
\* ArchiveManagement.handleCompareSelected and TestReportsBoard.handleCompare
\* compareReports is called only when exactly two reports are selected, with
\* the two of them, and with fewer or more a warning is shown and nothing sent.
C15_CompareExactlyTwo ==
    /\ [][\A r \in SentNow :
            r.kind = "compare" => Len(Selection) = 2 /\ r.ids = Selection]_vars
    /\ [][(Len(Selection) # 2 /\ ComparesInVain) =>
            /\ CompareWarning' = IF Len(Selection) < 2 THEN "atLeastTwo" ELSE "atMostTwo"
            /\ requests' = requests]_vars

\* a comparison of two reports is in flight, and the archive page, mounted
\* again with three reports selected, has answered with the warning
C15_Witness ==
    /\ route = "archive" /\ Len(archive.selectedArchiveIds) = 3
    /\ archive.archiveActionFeedback = Status("warning", "atMostTwo", 0, 0)
    /\ \E r \in PendingRequests(requests) : r.kind = "compare" /\ Len(r.ids) = 2

(***************************************************************************)
(* Properties of the filenames.                                            *)
(***************************************************************************)
\* the two cases of one letter
SameLetter(c, d) == c = d \/ {c, d} = {"a", "A"}

\* f and g differ in letter case only
DiffersOnlyInCase(f, g) ==
    /\ Len(f) = Len(g)
    /\ \A i \in 1..Len(f) : SameLetter(f[i], g[i])

\* C16: normaliseFilenameForComparison is case-insensitive: every filename
\* that differs from the normalised one in letter case only normalises to
\* the same string.
C16_CaseInsensitive ==
    fphase = "once" =>
        \A g \in FileNameInputs :
            DiffersOnlyInCase(fname, g) => normaliseFilenameForComparison(g) = fnorm

\* a filename with a capital letter was normalised and kept the letter
C16_Witness ==
    /\ fphase = "once"
    /\ \E i \in 1..Len(fname) : fname[i] = "A"
    /\ \E i \in 1..Len(fnorm) : fnorm[i] = "a"

(***************************************************************************)
(* Properties of the counters.                                             *)
(***************************************************************************)
\* C17: every normalised analysis summary the client produces satisfies
\* passed + failed <= total_tests (the counters normaliseSummaryPayload
\* writes into the summary's overall_summary).
C17_CountsWithinTotal ==
    (BothBuilt /\ HasSummaries(entrySummaries)) =>
        \A i \in 1..Len(Get(entrySummaries, "summaries").a) :
            PerSummary(entrySummaries, i, "passed") + PerSummary(entrySummaries, i, "failed")
                <= PerSummary(entrySummaries, i, "total_tests")

(***************************************************************************)
(* Properties of the home upload flow.                                     *)
(***************************************************************************)
\* the requests of activation pid of the given kind
RequestsOf(pid, kind) ==
    {requests[i] : i \in {j \in 1..Len(requests) :
                              requests[j].pid = pid /\ requests[j].kind = kind}}

HomeUploads == {pid \in 1..Len(procs) : procs[pid].kind = "homeUpload"}

UploadsSettled(pid) == \A r \in RequestsOf(pid, "upload") : r.status # "pending"
SomeUploadSucceeded(pid) == \E r \in RequestsOf(pid, "upload") : r.status = "ok"
AnalysisSettled(pid) ==
    /\ RequestsOf(pid, "analyzeFiles") # {}
    /\ \A r \in RequestsOf(pid, "analyzeFiles") : r.status # "pending"

\* the step in which activation pid returns
ReturnsNow(pid) == procs[pid].pc # "done" /\ procs'[pid].pc = "done"

\* C22: in the home upload flow the analysis request is sent only after
\* every upload has settled and only if at least one upload succeeded; the
\* report-list refresh is requested only after the analysis has settled and
\* only if an upload succeeded; onAnalysisComplete adds its entry only after
\* the refresh has settled; and onProcessingEnd clears the flag last, in the
\* step in which the handler returns.
C22_HomeFlowOrdered ==
    /\ [](\A pid \in HomeUploads :
            /\ RequestsOf(pid, "analyzeFiles") # {} =>
                   UploadsSettled(pid) /\ SomeUploadSucceeded(pid)
            /\ RequestsOf(pid, "getAllReports") # {} =>
                   AnalysisSettled(pid) /\ SomeUploadSucceeded(pid))
    /\ [][analysisHistory' # analysisHistory =>
             \E pid \in HomeUploads :
                 /\ At(pid, "homeUpload", "refresh")
                 /\ RequestsOf(pid, "getAllReports") # {}
                 /\ ReturnsNow(pid)]_vars
    /\ [][(isAnalysisProcessing /\ ~isAnalysisProcessing') =>
             \E pid \in HomeUploads : ReturnsNow(pid)]_vars

\* a flow ran to its end: uploaded, analysed, refreshed, entry added, flag cleared
C22_Witness ==
    /\ Len(analysisHistory) = 1
    /\ ~isAnalysisProcessing
    /\ Cardinality(reports) = Cardinality(InitialReports) + 1
    /\ \E pid \in HomeUploads : procs[pid].pc = "done"

(***************************************************************************)
(* Properties of the home upload form.                                     *)
(***************************************************************************)
\* a selection the form has to reject: a file that is no PDF, or too many files
Unacceptable(fileList) ==
    \/ \E i \in 1..Len(fileList) : ~isPdfFile(fileList[i])
    \/ Len(fileList) > MAX_FILES

SelectionEvent == homeEvent'.kind \in {"fileChange", "drop"}

\* C27: in the home upload form selectedFiles holds at most one file and
\* only PDF files; a selection with a file that is no PDF or with more than
\* one file is rejected as a whole (the selection becomes empty and an error
\* status is shown); and a file-input, drop or clear event that arrives
\* while isProcessing is true leaves selectedFiles and status unchanged.
C27_HomeSelection ==
    /\ [](/\ Len(home.selectedFiles) <= MAX_FILES
          /\ \A i \in 1..Len(home.selectedFiles) : isPdfFile(home.selectedFiles[i]))
    /\ [][(homeEvent' # homeEvent /\ homeEvent'.processing) => home' = home]_vars
    /\ [][(homeEvent' # homeEvent /\ ~homeEvent'.processing /\ SelectionEvent
              /\ Unacceptable(homeEvent'.files)) =>
             (home'.selectedFiles = <<>> /\ home'.status.type = "error")]_vars

\* a selection of a PDF and another file was rejected while a file was selected
C27_Witness ==
    /\ homeEvent.kind = "drop" /\ ~homeEvent.processing
    /\ Len(homeEvent.files) = 2 /\ isPdfFile(homeEvent.files[1])
    /\ home.selectedFiles = <<>> /\ home.status.type = "error"

ReanalysisKinds == {"archiveAnalyze", "boardAnalyze"}
ReanalysisRequests == {"analyzeArchived", "download", "analyzeFiles"}

\* the warning the mounted page shows about the selection to analyse, "" if none
AnalyzeWarning ==
    IF route = "archive"
    THEN IF archive.archiveActionFeedback.type = "warning"
         THEN archive.archiveActionFeedback.message ELSE ""
    ELSE IF board.actionMessage \in {"selectReport", "atMostTwo"}
         THEN board.actionMessage ELSE ""

\* the processing flag of the mounted page
AnalyzeFlag ==
    IF route = "archive" THEN archive.isArchiveProcessing ELSE board.isProcessing

\* the analyze handler of the mounted page runs in this step without starting
\* an activation: the feedback of the page changes, nothing else does
AnalyzesInVain ==
    /\ procs' = procs /\ route' = route /\ Selection' = Selection
    /\ \/ route = "archive" /\ archive'.archiveActionFeedback # archive.archiveActionFeedback
       \/ route = "r80" /\ board'.actionMessage # board.actionMessage

\* C28: a re-analysis request for stored reports is sent only when one or
\* two reports are selected: handleAnalyzeSelected and handleAnalyze start
\* with the one or two selected reports, every request of theirs belongs to
\* such a start, and with no selection or more than two a warning is shown,
\* no request is sent and the processing flag is not set.
C28_AnalyzeOneOrTwo ==
    /\ [][\A pid \in StartedNow :
            (procs'[pid].kind \in ReanalysisKinds /\ procs'[pid].pc # "done") =>
                Len(Selection) \in 1..2 /\ procs'[pid].ids = Selection]_vars
    /\ [](\A i \in 1..Len(requests) :
            requests[i].kind \in ReanalysisRequests =>
                /\ procs[requests[i].pid].kind \in ReanalysisKinds
                /\ Len(procs[requests[i].pid].ids) \in 1..2)
    /\ [][(Len(Selection) \notin 1..2 /\ AnalyzesInVain) =>
            /\ AnalyzeWarning' = IF Len(Selection) = 0 THEN "selectReport" ELSE "atMostTwo"
            /\ requests' = requests
            /\ ~AnalyzeFlag' /\ sessionStorage' = sessionStorage]_vars

\* the board, with three reports selected, has answered with the warning
\* while the analysis of two reports started on the archive page is in flight
C28_Witness ==
    /\ route = "r80" /\ Len(board.selectedIds) = 3
    /\ board.actionMessage = "atMostTwo" /\ ~board.isProcessing
    /\ \E r \in PendingRequests(requests) : r.kind = "analyzeArchived" /\ Len(r.ids) = 2

(***************************************************************************)
(* Properties of the selection of reports.                                 *)
(***************************************************************************)
CompareKinds == {"archiveCompare", "boardCompare"}

\* the page instance that started activation pid is the mounted one
Mounted(pid) ==
    \/ route = "archive" /\ procs[pid].kind \in {"archiveAnalyze", "archiveCompare"}
           /\ archive.inst = procs[pid].inst
    \/ route = "r80" /\ procs[pid].kind \in {"boardAnalyze", "boardCompare"}
           /\ board.inst = procs[pid].inst

\* the handlers of the given kinds that return in this step
Returning(kinds) ==
    {pid \in 1..Len(procs) : procs[pid].kind \in kinds /\ ReturnsNow(pid)}

\* what the mounted page says about its last action
ActionFeedback ==
    IF route = "archive" THEN archive.archiveActionFeedback.message ELSE board.actionMessage

\* the comparison result the mounted page shows, <<>> if none
ComparisonShown ==
    IF route = "archive" THEN archive.archiveComparisonResult ELSE board.compareResult

\* C29: the report selection is cleared only by a successful analysis: when
\* handleAnalyzeSelected or handleAnalyze succeeds the selected-ID list
\* becomes empty; when it fails the list stays as it is and no entry is added
\* to the analysis history; a compare action, successful or failed, never
\* changes the selection; and a failed compare clears the comparison result
\* that was shown.
C29_SelectionClearedBySuccess ==
    /\ [][\A pid \in Returning(ReanalysisKinds) :
            IF Mounted(pid)
            THEN \/ /\ ActionFeedback' = "analyzed"
                    /\ Selection' = <<>>
                 \/ /\ ActionFeedback' = "analyzeFailed"
                    /\ Selection' = Selection
                    /\ analysisHistory' = analysisHistory
            ELSE Selection' = Selection]_vars
    /\ [][(\E pid \in StartedNow : procs'[pid].kind \in CompareKinds)
             \/ Returning(CompareKinds) # {}
                => Selection' = Selection]_vars
    /\ [][\A pid \in Returning(CompareKinds) :
            (Mounted(pid) /\ ActionFeedback' = "compareFailed") => ComparisonShown' = <<>>]_vars

\* an analysis of the board has failed: the selection is still there, next
\* to the result of an earlier comparison, and the history is empty
C29_Witness ==
    /\ route = "r80" /\ board.actionMessage = "analyzeFailed"
    /\ Len(board.selectedIds) = 2 /\ board.compareResult # <<>>
    /\ analysisHistory = <<>>

(***************************************************************************)
(* Properties of the report list.                                          *)
(***************************************************************************)
FetchesInFlight == {i \in 1..Len(fetches) : fetches[i].state # "settled"}
FetchSettlesNow(i) == fetches[i].state = "answered" /\ fetches'[i].state = "settled"

\* C24: once all the overlapping calls of fetchReports have settled
\* successfully, App.reports is the response of the call that started last,
\* in whatever order the responses arrived.
C24_LastStartedWins ==
    (FetchesInFlight = {} /\ \A i \in 1..Len(fetches) : fetches[i].ok) =>
        reports = fetches[Len(fetches)].data

\* C25: App.loading is true exactly while a getAllReports request of
\* fetchReports is in flight; a failed fetch sets the error and leaves the
\* reports as they were, a successful fetch clears the error.
C25_LoadingWhileFetching ==
    /\ [](loading <=> FetchesInFlight # {})
    /\ [][\A i \in 1..Len(fetches) :
             FetchSettlesNow(i) =>
                 IF fetches[i].ok THEN ~error' ELSE error' /\ reports' = reports]_vars

(***************************************************************************)
(* Properties of the reset.                                                *)
(***************************************************************************)
\* the reset request of activation pid settles in this step
ResetSucceeds(pid) == At(pid, "resetAll", "reset") /\ procs'[pid].pc = "refresh"
ResetFails(pid) == At(pid, "resetAll", "reset") /\ procs'[pid].pc = "done"
\* the refresh a successful reset waits for settles in this step
ResetRefreshed(pid) == At(pid, "resetAll", "refresh") /\ procs'[pid].pc = "done"
SectionMounted(pid) == route = "home" /\ homeSection.inst = procs[pid].inst
Refetching(pid) ==
    \E i \in 1..Len(requests') :
        /\ requests'[i].pid = pid /\ requests'[i].kind = "getAllReports"
        /\ requests'[i].status = "pending"

\* C30: a reset clears the client state only on success.  When the reset
\* request succeeds the analysis history is emptied and the report list is
\* fetched again, the handler returning when that fetch has settled; when
\* the reset request fails the history and the report list stay as they
\* were, nothing is fetched and the mounted page shows an error banner.
\* Nothing but a successful reset empties the history.
C30_ResetClearsOnSuccess ==
    /\ [][\A pid \in 1..Len(procs) :
             /\ ResetSucceeds(pid) =>
                    /\ analysisHistory' = <<>> /\ loading' /\ Refetching(pid)
                    /\ SectionMounted(pid) => homeSection'.resetStatus.type = "success"
             /\ ResetRefreshed(pid) =>
                    /\ ~loading' /\ ~Refetching(pid)
                    /\ error' \/ reports' = serverReports
             /\ ResetFails(pid) =>
                    /\ analysisHistory' = analysisHistory /\ reports' = reports
                    /\ loading' = loading /\ ~Refetching(pid)
                    /\ SectionMounted(pid) => homeSection'.resetStatus.type = "error"]_vars
    /\ [][(analysisHistory # <<>> /\ analysisHistory' = <<>>) =>
             \E pid \in 1..Len(procs) : ResetSucceeds(pid)]_vars

\* a reset has succeeded on the mounted page after an analysis had completed,
\* and its refresh is under way
C30_Witness ==
    \E pid \in 1..Len(procs) :
        /\ At(pid, "resetAll", "refresh") /\ SectionMounted(pid)
        /\ clock > 1 /\ analysisHistory = <<>>
        /\ homeSection.resetStatus.type = "success" /\ homeSection.isResetting

(***************************************************************************)
(* Properties of the processing flags.                                     *)
(***************************************************************************)
AwaitsRequest(pid) ==
    \E i \in 1..Len(requests) : requests[i].pid = pid /\ requests[i].status = "pending"

\* a handler of the kind, started by the instance, has a request in flight or
\* is in the middle of a synchronous run
StillRunning(kind, inst) ==
    \E pid \in 1..Len(procs) :
        /\ procs[pid].kind = kind /\ procs[pid].inst = inst
        /\ AwaitsRequest(pid) \/ procs[pid].pc = "afterLoop"

HomeUploadStarts ==
    /\ Len(procs') = Len(procs) + 1 /\ procs'[Len(procs')].kind = "homeUpload"
HomeUploadReturns ==
    \E pid \in 1..Len(procs) :
        procs[pid].kind = "homeUpload" /\ procs[pid].pc # "done" /\ procs'[pid].pc = "done"

\* C21: every processing flag is released.  A flag that is set belongs to a
\* handler that still has a request in flight, so that it is cleared by the
\* step in which the handler's last request settles, with success or with
\* failure; the home form's flag is set by onProcessingStart when an upload
\* starts and cleared by onProcessingEnd when that upload returns, once each.
C21_FlagsReleased ==
    /\ [](/\ isAnalysisProcessing =>
                \E pid \in 1..Len(procs) :
                    procs[pid].kind = "homeUpload" /\ AwaitsRequest(pid)
          /\ archive.isMultiUploading => StillRunning("bulkUpload", archive.inst)
          /\ archive.isArchiveProcessing => StillRunning("archiveAnalyze", archive.inst)
          /\ archive.isArchiveComparing => StillRunning("archiveCompare", archive.inst)
          /\ homeSection.isResetting => StillRunning("resetAll", homeSection.inst)
          /\ queryPage.isProcessing => StillRunning("query", queryPage.inst))
    /\ [][/\ HomeUploadStarts => ~isAnalysisProcessing /\ isAnalysisProcessing'
          /\ HomeUploadReturns => isAnalysisProcessing /\ ~isAnalysisProcessing'
          /\ isAnalysisProcessing' # isAnalysisProcessing =>
                 HomeUploadStarts \/ HomeUploadReturns]_vars

\* on the home page an upload has returned and a reset has failed, and both
\* flags are clear again
C21_Witness ==
    /\ route = "home" /\ homeSection.inst = 1
    /\ ~isAnalysisProcessing /\ ~homeSection.isResetting
    /\ homeSection.resetStatus.type = "error"
    /\ \E pid \in 1..Len(procs) : procs[pid].kind = "homeUpload" /\ procs[pid].pc = "done"
    /\ \E pid \in 1..Len(procs) : procs[pid].kind = "resetAll" /\ procs[pid].pc = "done"

(***************************************************************************)
(* Properties of the analysis history.                                     *)
(***************************************************************************)
\* the time an entry was made at: its id, Date.now()
EntryTime(e) == Get(e, "id").n

\* C23: analysisHistory is ordered newest first; recentAnalyses is its first
\* two entries (fewer if it is shorter) and archivedAnalyses the remaining
\* ones, so that no entry is in both lists and every entry is in one of them;
\* the sectionAnalyses of a board never hold more than two entries.
C23_HistoryLists ==
    /\ \A i, j \in 1..Len(analysisHistory) :
           i < j => EntryTime(analysisHistory[i]) > EntryTime(analysisHistory[j])
    /\ Len(recentAnalyses) = Min(2, Len(analysisHistory))
    /\ \A i \in 1..Len(recentAnalyses) : recentAnalyses[i] = analysisHistory[i]
    /\ Len(archivedAnalyses) = Len(analysisHistory) - Len(recentAnalyses)
    /\ \A i \in 1..Len(archivedAnalyses) : archivedAnalyses[i] = analysisHistory[i + 2]
    /\ \A i \in 1..Len(recentAnalyses), j \in 1..Len(archivedAnalyses) :
           recentAnalyses[i] # archivedAnalyses[j]
    /\ Len(board.sectionAnalyses) <= 2

\* a third analysis has completed on a board that showed two: the history
\* has an archived entry, the board shows the two newest
C23_Witness ==
    /\ route = "r80" /\ board.inst = 1
    /\ Len(analysisHistory) >= 3 /\ archivedAnalyses # <<>>
    /\ board.sectionAnalyses = recentAnalyses
    /\ \E pid \in 1..Len(procs) : procs[pid].kind = "boardAnalyze" /\ procs[pid].pc = "done"

====
